---- MODULE Spec2Model ----
(***************************************************************************)
(* Volume synchronisation of crunchyclient / qdcli: the sorted tree        *)
(* walker, the paginated catalog reader, the merge-differ and the          *)
(* update_volume engine that drives them and batches the mutations; and    *)
(* the ResourceProcessor: the identifier resolver and the mapping of        *)
(* documents to statements.                                                *)
(*                                                                         *)
(* Strings are sequences of character codes, compared as Python compares   *)
(* str (lexicographically by code point).  Python objects that may be      *)
(* None are records, so that None compares unequal to every one of them.   *)
(***************************************************************************)
EXTENDS Integers, Sequences, FiniteSets, TLC

VARIABLES
    fs,         \* the local tree under the volume root: relative path -> entry
    exclude,    \* vcfg['exclude']: the configured exclusion patterns
    catalog,    \* the remote catalog of the volume: path -> tracked file record
    clock,      \* the wall clock read by dt.now()
    stack,      \* TreeFileIterator.stack
    results,    \* ApiFileIterator.results
    idx,        \* ApiFileIterator.idx
    limit,      \* ApiFileIterator.limit
    left,       \* CombinedIterator.left
    right,      \* CombinedIterator.right
    cur_left,   \* CombinedIterator.cur_left
    cur_right,  \* CombinedIterator.cur_right
    batch,      \* update_volume's batch dict
    pc,         \* where update_volume stands: idle, loop, done, raised
    error,      \* the exception that left update_volume, when pc = "raised"
    run,        \* how many update_volume runs have been started
    emitted,    \* history: the pairs the CombinedIterator returned in this run
    produced,   \* history: the (k, v) entries put into the batch in this run
    walked,     \* history: the paths the TreeFileIterator yielded in this run
    fetched,    \* history: the records the ApiFileIterator yielded in this run
    calls,      \* history: the API requests issued in this run
    printed,    \* history: what this run printed
    ended,      \* history: how each earlier run ended
    sts,        \* the statement repository (self.statements.sts)
    last,       \* history: the last ResourceProcessor call and what it gave
    shown,      \* history: the last document rendered and from what
    edit,       \* the edit operation under way: its documents and its place
    editor      \* the call_text_editor call under way: its file and its place

vars == <<fs, exclude, catalog, clock, stack, results, idx, limit, left, right,
          cur_left, cur_right, batch, pc, error, run, emitted, produced,
          walked, fetched, calls, printed, ended, sts, last, shown, edit,
          editor>>

-----------------------------------------------------------------------------
(* Bounds of the model *)

\* number of files 'a', 'b', ... a flat volume may hold (Spec)
NumNames == 3
\* number of files of the bulk volume (SpecBulk): enough to reach the threshold
NumBulk == 11
\* how many files of the bulk volume may be other than new, readable files
MaxSpecial == 1
\* entries of a nested tree (SpecTree)
MaxEntries == 3
\* how many times update_volume is run in a row
MaxRuns == 2
\* the page size the catalog server grants
PageLimit == 2

-----------------------------------------------------------------------------
(* Program constants *)

\* b'/' in TreeFileIterator.sortkey, the path separator
Slash == 47
\* ApiFileIterator.preferred_limit
preferred_limit == 10000
\* the threshold update_volume passes to _handle_file_batch inside the loop
LoopTreshold == 10
\* the threshold update_volume passes to _handle_file_batch after the loop
FinalTreshold == 1

-----------------------------------------------------------------------------
(* Python values *)

None == [none |-> TRUE]
StopIteration == [stop |-> TRUE]

Min(a, b) == IF a < b THEN a ELSE b

\* str.__lt__: lexicographic order by code point
StrLess(a, b) ==
    \E i \in 1..(Min(Len(a), Len(b)) + 1) :
        /\ \A j \in 1..(i - 1) : a[j] = b[j]
        /\ IF i > Len(a) THEN i <= Len(b)
           ELSE i <= Len(b) /\ a[i] < b[i]

\* datetime.fromtimestamp: st_mtime (here in half microseconds) rounded
\* half-to-even to whole microseconds
fromtimestamp(t) ==
    LET q  == t \div 2
        us == IF t % 2 = 1 /\ q % 2 = 1 THEN q + 1 ELSE q
    IN  [sec |-> us \div 1000000, us |-> us % 1000000]

\* datetime.isoformat: the fraction is printed only when it is not zero
isoformat(d) == IF d.us = 0 THEN <<d.sec>> ELSE <<d.sec, d.us>>

\* datetime.fromisoformat
fromisoformat(s) == [sec |-> s[1], us |-> IF Len(s) > 1 THEN s[2] ELSE 0]

\* dt.now()
now(c) == [sec |-> c, us |-> 0]

-----------------------------------------------------------------------------
(* pathlib on the local tree.  A path is the string relative to the root, *)
(* the root itself is the empty string.                                    *)

root == << >>

\* the name of the root directory itself
RootName == <<118>>

\* p / name
Join(p, name) == IF p = root THEN name ELSE p \o <<Slash>> \o name

\* Path.name: the last component
Name(p) ==
    IF p = root THEN RootName
    ELSE LET starts == {i \in 1..Len(p) : \A j \in i..Len(p) : p[j] # Slash}
             i == CHOOSE k \in starts : \A m \in starts : k <= m
         IN  SubSeq(p, i, Len(p))

\* Path.parent
Parent(p) ==
    LET n == Len(p) - Len(Name(p))
    IN  IF n = 0 THEN root ELSE SubSeq(p, 1, n - 1)

\* Path.iterdir
iterdir(p) == {q \in DOMAIN fs : Parent(q) = p}

is_symlink(p) == p \in DOMAIN fs /\ fs[p].kind = "symlink"

\* Path.is_dir follows symlinks
is_dir(p) ==
    \/ p = root
    \/ /\ p \in DOMAIN fs
       /\ \/ fs[p].kind = "dir"
          \/ fs[p].kind = "symlink" /\ fs[p].target = "dir"

\* PurePath.match with a pattern that is one literal name: the pattern is
\* matched from the right, against the last component
match(p, e) == Name(p) = e

\* a Path object handed out by the walker
PathObj(p) == [rel |-> p]

-----------------------------------------------------------------------------
(* TreeFileIterator *)

\* sortkey without the separator appended to a directory
sortkey_plain(entry) == entry

\* TreeFileIterator.sortkey: bytes(entry), with b'/' appended for a directory.
\* The entries compared are siblings, so the root's own prefix is left out.
sortkey(entry) == IF is_dir(entry) THEN entry \o <<Slash>> ELSE entry

\* the entries sorted by sortkey without reverse=True
RECURSIVE SortedReverse_forward(_)
SortedReverse_forward(S) ==
    IF S = {} THEN << >>
    ELSE LET m == CHOOSE x \in S :
                      \A y \in S : ~StrLess(sortkey(y), sortkey(x))
         IN  <<m>> \o SortedReverse_forward(S \ {m})

\* sorted(S, key=self.sortkey, reverse=True)
RECURSIVE SortedReverse(_)
SortedReverse(S) ==
    IF S = {} THEN << >>
    ELSE LET m == CHOOSE x \in S :
                      \A y \in S : ~StrLess(sortkey(x), sortkey(y))
         IN  <<m>> \o SortedReverse(S \ {m})

\* TreeFileIterator._is_excluded
_is_excluded(path) ==
    exclude # None /\ \E e \in exclude.list : match(path, e)

\* the while loop of TreeFileIterator.__next__, p being the entry in hand;
\* stack.pop() on an empty stack raises IndexError, turned into StopIteration
RECURSIVE TfiPop(_)
TfiLoop(stk, p) ==
    IF is_symlink(p) \/ _is_excluded(p) THEN TfiPop(stk)
    ELSE IF is_dir(p) THEN TfiPop(stk \o SortedReverse(iterdir(p)))
    ELSE [stack |-> stk, val |-> PathObj(p)]

\* p = self.stack.pop(), and the loop on p
TfiPop(stk) ==
    IF stk = << >> THEN [stack |-> stk, val |-> StopIteration]
    ELSE TfiLoop(SubSeq(stk, 1, Len(stk) - 1), stk[Len(stk)])

\* TreeFileIterator.__next__
TfiNext(stk) == TfiPop(stk)

-----------------------------------------------------------------------------
(* The remote catalog API, as ApiFileIterator and mutate_files use it *)

\* b64encode(os.fsencode(path)).decode(): the cursor as it travels
b64encode(s) == [b64 |-> s]
b64decode(c) == c.b64

\* the elements of a set of paths in ascending order
RECURSIVE SortedPaths(_)
SortedPaths(S) ==
    IF S = {} THEN << >>
    ELSE LET m == CHOOSE x \in S : \A y \in S : ~StrLess(y, x)
         IN  <<m>> \o SortedPaths(S \ {m})

\* GET volumes/<reference>/files: the records after the cursor, ascending by
\* path, at most the granted page size; the response names that page size
ServerList(cat, params) ==
    LET lim  == Min(params.limit, PageLimit)
        after == IF "after" \in DOMAIN params
                 THEN {q \in DOMAIN cat : StrLess(b64decode(params.after), q)}
                 ELSE DOMAIN cat
        paths == SortedPaths(after)
        page == SubSeq(paths, 1, Min(lim, Len(paths)))
    IN  [results |-> [i \in 1..Len(page) |-> cat[page[i]]], limit |-> lim]

\* POST volumes/<reference>/files: None deletes the record of a path, a
\* file_info record replaces it
ServerMutate(cat, files) ==
    LET keep == (DOMAIN cat \ DOMAIN files)
                \cup {q \in DOMAIN files : files[q] # None}
    IN  [q \in keep |->
            IF q \in DOMAIN files
            THEN [path |-> q, size |-> files[q].size, mtime |-> files[q].mtime,
                  sha256 |-> files[q].sha256,
                  lastverify |-> files[q].lastverify]
            ELSE cat[q]]

\* BaseAPI._raise_from_request: the exception raised for an HTTP status
_raise_from_request(status) ==
    IF status < 400 THEN None
    ELSE IF status = 404 THEN [raise |-> "NotFoundError"]
    ELSE [raise |-> "HTTPError"]

-----------------------------------------------------------------------------
(* ApiFileIterator *)

\* what _load_next leaves in the iterator after the response to params
Loaded(response, params) ==
    [results |-> [list |-> response.results], limit |-> response.limit,
     idx |-> 0,
     reqs |-> <<[op |-> "get", params |-> params, response |-> response]>>,
     raised |-> None]

\* _load_next taking the cursor from the first record of the page
_load_next_first(it, cat) ==
    IF it.results = None
    THEN Loaded(ServerList(cat, [limit |-> preferred_limit]),
                [limit |-> preferred_limit])
    ELSE IF it.limit > Len(it.results.list) \/ it.limit < 1
    THEN [results |-> it.results, limit |-> it.limit, idx |-> it.idx,
          reqs |-> << >>, raised |-> [raise |-> "IndexError"]]
    ELSE Loaded(ServerList(cat,
                    [after |-> b64encode(it.results.list[1].path),
                     limit |-> preferred_limit]),
                [after |-> b64encode(it.results.list[1].path),
                 limit |-> preferred_limit])

\* ApiFileIterator._load_next, on the iterator it = [results, idx, limit];
\* reqs collects the requests sent
_load_next(it, cat) ==
    IF it.results = None
    THEN Loaded(ServerList(cat, [limit |-> preferred_limit]),
                [limit |-> preferred_limit])
    ELSE IF it.limit > Len(it.results.list) \/ it.limit < 1
    THEN [results |-> it.results, limit |-> it.limit, idx |-> it.idx,
          reqs |-> << >>, raised |-> [raise |-> "IndexError"]]
    ELSE Loaded(ServerList(cat,
                    [after |-> b64encode(it.results.list[it.limit].path),
                     limit |-> preferred_limit]),
                [after |-> b64encode(it.results.list[it.limit].path),
                 limit |-> preferred_limit])

\* the try block of ApiFileIterator.__next__, l being the iterator after
\* _load_next (if it was called)
AfiTake(l) ==
    IF l.raised # None
    THEN [results |-> l.results, limit |-> l.limit, idx |-> l.idx,
          reqs |-> l.reqs, val |-> l.raised]
    ELSE IF l.idx + 1 > Len(l.results.list)
    THEN [results |-> l.results, limit |-> l.limit, idx |-> l.idx,
          reqs |-> l.reqs, val |-> StopIteration]
    ELSE [results |-> l.results, limit |-> l.limit, idx |-> l.idx + 1,
          reqs |-> l.reqs, val |-> l.results.list[l.idx + 1]]

\* __next__ loading the next page only when idx has passed the limit
AfiNext_gt(it, cat) ==
    AfiTake(IF it.results = None \/ it.idx > it.limit
            THEN _load_next(it, cat)
            ELSE [results |-> it.results, limit |-> it.limit, idx |-> it.idx,
                  reqs |-> << >>, raised |-> None])

\* ApiFileIterator.__next__
AfiNext(it, cat) ==
    AfiTake(IF it.results = None \/ it.idx >= it.limit
            THEN _load_next(it, cat)
            ELSE [results |-> it.results, limit |-> it.limit, idx |-> it.idx,
                  reqs |-> << >>, raised |-> None])

-----------------------------------------------------------------------------
(* CombinedIterator over the TreeFileIterator (left) and the               *)
(* ApiFileIterator (right).  c holds the fields of the three objects, the  *)
(* requests sent so far (reqs), the paths the walker has yielded so far    *)
(* (walked), the records the reader has yielded so far (fetched) and an    *)
(* exception on its way out (raised).                                      *)

TfiRef == [iter |-> "TreeFileIterator"]
AfiRef == [iter |-> "ApiFileIterator"]

Raises(v) == "raise" \in DOMAIN v

\* the assignments of _advance_left, r being what next(self.left) gave
TakeLeft(c, r) ==
    IF r.val = StopIteration
    THEN [c EXCEPT !.stack = r.stack, !.left = None, !.cur_left = None]
    ELSE [c EXCEPT !.stack = r.stack, !.cur_left = r.val,
                   !.walked = Append(c.walked, r.val)]

\* CombinedIterator._advance_left
_advance_left(c) ==
    IF c.left # None THEN TakeLeft(c, TfiNext(c.stack)) ELSE c

\* the assignments of _advance_right, r being what next(self.right) gave;
\* an exception other than StopIteration is not caught
TakeRight(c, r) ==
    IF r.val = StopIteration
    THEN [c EXCEPT !.results = r.results, !.idx = r.idx, !.limit = r.limit,
                   !.reqs = c.reqs \o r.reqs,
                   !.right = None, !.cur_right = None]
    ELSE IF Raises(r.val)
    THEN [c EXCEPT !.results = r.results, !.idx = r.idx, !.limit = r.limit,
                   !.reqs = c.reqs \o r.reqs, !.raised = r.val]
    ELSE [c EXCEPT !.results = r.results, !.idx = r.idx, !.limit = r.limit,
                   !.reqs = c.reqs \o r.reqs, !.cur_right = r.val,
                   !.fetched = Append(c.fetched, r.val)]

\* CombinedIterator._advance_right
_advance_right(c, cat) ==
    IF c.right # None
    THEN TakeRight(c, AfiNext([results |-> c.results, idx |-> c.idx,
                               limit |-> c.limit], cat))
    ELSE c

\* the left_key update_volume passes: str(x.relative_to(tfi.root))
left_key(x) == IF x = None THEN [raise |-> "AttributeError"] ELSE [key |-> x.rel]

\* the right_key update_volume passes: x['path']
right_key(x) == IF x = None THEN [raise |-> "TypeError"] ELSE [key |-> x.path]

\* a < b on two evaluated keys: an exception raised by a key function
\* (the left one is called first) leaves the comparison
Lt(a, b) ==
    IF Raises(a) THEN a ELSE IF Raises(b) THEN b
    ELSE [b |-> StrLess(a.key, b.key)]

\* a > b
Gt(a, b) ==
    IF Raises(a) THEN a ELSE IF Raises(b) THEN b
    ELSE [b |-> StrLess(b.key, a.key)]

\* CombinedIterator.__init__
CombinedInit(stk, cat) ==
    _advance_right(
        _advance_left([left |-> TfiRef, right |-> AfiRef, cur_left |-> None,
                       cur_right |-> None, stack |-> stk, results |-> None,
                       idx |-> 0, limit |-> None, reqs |-> << >>,
                       walked |-> << >>, fetched |-> << >>,
                       raised |-> None]),
        cat)

\* what __next__ returns after its advances left the iterators as d
Returned(d, pair) ==
    [c |-> d, retval |-> IF d.raised # None THEN d.raised ELSE pair]

\* the last two branches of __next__, t2 being the test of the second elif
CombinedElse(c, cat, t2) ==
    IF Raises(t2) THEN [c |-> c, retval |-> t2]
    ELSE IF t2.b
    THEN Returned(_advance_right(c, cat),
                  [local |-> None, remote |-> c.cur_right])
    ELSE Returned(_advance_right(_advance_left(c), cat),
                  [local |-> c.cur_left, remote |-> c.cur_right])

\* the branches of __next__ after the first, t1 being the test of the
\* first elif
CombinedElif(c, cat, t1) ==
    IF Raises(t1) THEN [c |-> c, retval |-> t1]
    ELSE IF t1.b
    THEN Returned(_advance_left(c), [local |-> c.cur_left, remote |-> None])
    ELSE CombinedElse(c, cat,
             IF c.left = None THEN [b |-> TRUE]
             ELSE Gt(left_key(c.cur_left), right_key(c.cur_right)))

\* CombinedIterator.__next__: the state after the call and what it returned
\* (a pair, StopIteration, or the exception it raised)
CombinedNext(c, cat) ==
    IF c.left = None /\ c.right = None
    THEN [c |-> c, retval |-> StopIteration]
    ELSE CombinedElif(c, cat,
             IF c.right = None THEN [b |-> TRUE]
             ELSE Lt(left_key(c.cur_left), right_key(c.cur_right)))

-----------------------------------------------------------------------------
(* StorageProcessor: the volume sync engine *)

\* b64encode(self._get_file_sha256(path)).decode('utf-8'): the digest of the
\* file's bytes
sha256_b64(content) == [sha256_of |-> content]

\* StorageProcessor._process_file: the fingerprint record, or None after a
\* PermissionError (raised when the file is opened for hashing)
_process_file(path, clk) ==
    IF fs[path.rel].readable
    THEN [file_info |->
             [mtime |-> isoformat(fromtimestamp(fs[path.rel].st_mtime)),
              size |-> fs[path.rel].st_size,
              lastverify |-> isoformat(now(clk)),
              sha256 |-> sha256_b64(fs[path.rel].content)],
          printed |-> << >>]
    ELSE [file_info |-> None,
          printed |-> <<[msg |-> "Permission error, ignoring:",
                         path |-> path.rel]>>]

\* StorageProcessor._update_file_status: the pair (k, v) it returns and what
\* it prints
_update_file_status(local, remote, clk) ==
    IF local = None
    THEN [k |-> [str |-> remote.path], v |-> None,
          printed |-> <<[msg |-> "DELETED", path |-> remote.path]>>]
    ELSE IF \/ remote = None
            \/ fs[local.rel].st_size # remote.size
            \/ fromtimestamp(fs[local.rel].st_mtime)
                   # fromisoformat(remote.mtime)
    THEN [k |-> [str |-> local.rel],
          v |-> _process_file(local, clk).file_info,
          printed |-> <<[msg |-> IF remote = None THEN "NEW" ELSE "CHANGED",
                         path |-> local.rel]>>
                      \o _process_file(local, clk).printed]
    ELSE [k |-> None, v |-> remote, printed |-> << >>]

\* the truth value of k in "if k:"
Truthy(k) == k # None /\ k.str # << >>

\* batch[k] = v
DictSet(d, k, v) == [q \in DOMAIN d \cup {k} |-> IF q = k THEN v ELSE d[q]]

EmptyDict == [q \in {} |-> None]

\* the test with > in place of >=
ReachedTreshold_gt(b, treshold) == Cardinality(DOMAIN b) > treshold

\* len(batch) >= treshold
ReachedTreshold(b, treshold) == Cardinality(DOMAIN b) >= treshold

\* _handle_file_batch returning the batch it has just submitted
_handle_file_batch_keep(b, treshold, status, cat) ==
    IF ReachedTreshold(b, treshold)
    THEN [batch |-> b,
          reqs |-> <<[op |-> "mutate", files |-> b, status |-> status]>>,
          cat |-> IF _raise_from_request(status) = None
                  THEN ServerMutate(cat, b) ELSE cat,
          raised |-> _raise_from_request(status)]
    ELSE [batch |-> b, reqs |-> << >>, cat |-> cat, raised |-> None]

\* _handle_file_batch swallowing the exception of a failed submission
_handle_file_batch_swallow(b, treshold, status, cat) ==
    IF ReachedTreshold(b, treshold)
    THEN [batch |-> IF _raise_from_request(status) = None THEN EmptyDict
                    ELSE b,
          reqs |-> <<[op |-> "mutate", files |-> b, status |-> status]>>,
          cat |-> IF _raise_from_request(status) = None
                  THEN ServerMutate(cat, b) ELSE cat,
          raised |-> None]
    ELSE [batch |-> b, reqs |-> << >>, cat |-> cat, raised |-> None]

\* StorageProcessor._handle_file_batch, the server answering the POST with
\* the given HTTP status: the batch it returns, the request it sent, the
\* catalog afterwards, and the exception that leaves it
_handle_file_batch(b, treshold, status, cat) ==
    IF ReachedTreshold(b, treshold)
    THEN [batch |-> IF _raise_from_request(status) = None THEN EmptyDict
                    ELSE b,
          reqs |-> <<[op |-> "mutate", files |-> b, status |-> status]>>,
          cat |-> IF _raise_from_request(status) = None
                  THEN ServerMutate(cat, b) ELSE cat,
          raised |-> _raise_from_request(status)]
    ELSE [batch |-> b, reqs |-> << >>, cat |-> cat, raised |-> None]

-----------------------------------------------------------------------------
(* ResourceProcessor: identifiers.  A Python value is a record: a str is   *)
(* [str |-> its characters], an int [int |-> n], a Statement [ref |-> its  *)
(* identity], a Blob [blob |-> its path].                                  *)

\* the binding marker '.' and the type marker ':'
Dot == 46
Colon == 58

\* 'type', 'label', 'Resource', the binding names the code itself uses
S_type == <<116, 121, 112, 101>>
S_label == <<108, 97, 98, 101, 108>>
S_Resource == <<82, 101, 115, 111, 117, 114, 99, 101>>

\* 'ComputerFile', the type of the resource of a file
S_ComputerFile == <<67, 111, 109, 112, 117, 116, 101, 114, 70, 105, 108, 101>>

\* 'content', 'file_size' and 'VideoFile', of the schema of the files
S_content == <<99, 111, 110, 116, 101, 110, 116>>
S_file_size == <<102, 105, 108, 101, 95, 115, 105, 122, 101>>
S_VideoFile == <<86, 105, 100, 101, 111, 70, 105, 108, 101>>

\* 'fileContent', 'fileSize', 'fileType' and 'DocumentFile', of the bindings
\* of the file analysis
S_fileContent == <<102, 105, 108, 101, 67, 111, 110, 116, 101, 110, 116>>
S_fileSize == <<102, 105, 108, 101, 83, 105, 122, 101>>
S_fileType == <<102, 105, 108, 101, 84, 121, 112, 101>>
S_DocumentFile == <<68, 111, 99, 117, 109, 101, 110, 116, 70, 105, 108, 101>>

\* 'file:'
S_file == <<102, 105, 108, 101, 58>>

Str(s) == [str |-> s]

\* type(value) == str
IsStr(value) == "str" \in DOMAIN value

\* str.startswith
startswith(s, prefix) ==
    Len(s) >= Len(prefix) /\ SubSeq(s, 1, Len(prefix)) = prefix

\* ch in s
Contains(s, ch) == \E i \in 1..Len(s) : s[i] = ch

\* s[n:]
From(s, n) == SubSeq(s, n + 1, Len(s))

\* str.split on a separator of one character
RECURSIVE split(_, _)
split(s, sep) ==
    IF ~Contains(s, sep) THEN <<s>>
    ELSE LET i == CHOOSE k \in 1..Len(s) :
                      s[k] = sep /\ \A j \in 1..(k - 1) : s[j] # sep
         IN  <<SubSeq(s, 1, i - 1)>> \o split(From(s, i), sep)

\* the names of the binding table, in the order of the statements they
\* name: 'type', 'label', 'Resource', the type 'M', the predicate 'g', and
\* the names of the files' schema
BindingNames ==
    <<S_type, S_label, S_Resource, <<77>>, <<103>>, S_ComputerFile,
      S_content, S_file_size, S_VideoFile, S_fileContent, S_fileSize,
      S_fileType, S_DocumentFile>>

\* the bindings are the first statements of the repository
NumBindings == Len(BindingNames)

\* b[name]: the statement bound to the name, UnknownBindingError without one
Lookup(name) ==
    IF \E i \in 1..NumBindings : BindingNames[i] = name
    THEN [ref |-> CHOOSE i \in 1..NumBindings : BindingNames[i] = name]
    ELSE [raise |-> "UnknownBindingError"]

\* the statement that sts[i] is
StRef(i) == [ref |-> NumBindings + i]

\* sts.find(s=..., p=..., o=...): the places of the statements that match,
\* a component that is None (as one left out is) matching anything
find(st, s, p, o) ==
    {i \in 1..Len(st) : /\ (s = None \/ st[i].s = s)
                         /\ (p = None \/ st[i].p = p)
                         /\ (o = None \/ st[i].o = o)}

\* the first of a non-empty result
First(S) == CHOOSE i \in S : \A j \in S : i <= j

\* repo.legacy_query(*filters): the places of the statements that have,
\* for every filter p == v, a statement with them as subject, p and v
legacy_query(st, filters) ==
    {i \in 1..Len(st) : \A f \in filters : find(st, StRef(i), f.p, f.v) # {}}

\* v = sp.get_blob_by_path(value[5:]) of the resolver: the value the call
\* on that path hands back, kept as the call (what the call does to a path
\* of the volume is get_blob_by_path of the file operations)
content_reference(path) == [blob |-> path]

\* repo.unique_deserialize: the statement that a serialized statement
\* 's:<id>' names, any other typed value being kept as what it is written as
unique_deserialize(value) ==
    IF Len(value) = 3 /\ value[1] = 115 /\ value[2] = Colon
    THEN [ref |-> value[3] - 64]
    ELSE [deserialized |-> value]

\* the type names of a path: parts[:-1] without 'Resource'
TypeNames(parts) ==
    {parts[i] : i \in {j \in 1..(Len(parts) - 1) : parts[j] # S_Resource}}

\* the filters of a path with the label filter left out
PathFilters_nolabel(parts) ==
    {[p |-> Lookup(S_type), v |-> Lookup(S_Resource)]}
    \cup {[p |-> Lookup(S_type), v |-> Lookup(t)] : t \in TypeNames(parts)}

\* the filters of a path: type == Resource, type == b[T] for every T,
\* label == the last part
PathFilters(parts) ==
    {[p |-> Lookup(S_type), v |-> Lookup(S_Resource)]}
    \cup {[p |-> Lookup(S_type), v |-> Lookup(t)] : t \in TypeNames(parts)}
    \cup {[p |-> Lookup(S_label), v |-> Str(parts[Len(parts)])]}

\* the branch of _parse_identifier for a value with a leading '/'
ParsePath(value, st) ==
    IF \E t \in TypeNames(split(From(value, 1), Slash)) : Raises(Lookup(t))
    THEN [raise |-> "UnknownBindingError"]
    ELSE IF legacy_query(st, PathFilters(split(From(value, 1), Slash))) = {}
    THEN None
    ELSE StRef(First(legacy_query(st,
                         PathFilters(split(From(value, 1), Slash)))))

\* the branches of _parse_identifier for a str, the test for ':' coming
\* before the test for 'file:'
ParseStr_colon_first(value, st) ==
    IF startswith(value, <<Dot>>) THEN Lookup(From(value, 1))
    ELSE IF startswith(value, <<Slash>>) THEN ParsePath(value, st)
    ELSE IF Contains(value, Colon) THEN unique_deserialize(value)
    ELSE IF startswith(value, S_file) THEN content_reference(From(value, 5))
    ELSE Str(value)

\* the branches of _parse_identifier for a str, a name without a binding
\* being handed to the later rules
ParseStr_fall_through(value, st) ==
    IF startswith(value, <<Dot>>) /\ ~Raises(Lookup(From(value, 1)))
    THEN Lookup(From(value, 1))
    ELSE IF startswith(value, <<Slash>>) THEN ParsePath(value, st)
    ELSE IF startswith(value, S_file) THEN content_reference(From(value, 5))
    ELSE IF Contains(value, Colon) THEN unique_deserialize(value)
    ELSE Str(value)

\* the branches of _parse_identifier for a str
ParseStr(value, st) ==
    IF startswith(value, <<Dot>>) THEN Lookup(From(value, 1))
    ELSE IF startswith(value, <<Slash>>) THEN ParsePath(value, st)
    ELSE IF startswith(value, S_file) THEN content_reference(From(value, 5))
    ELSE IF Contains(value, Colon) THEN unique_deserialize(value)
    ELSE Str(value)

\* ResourceProcessor._parse_identifier: the value it returns, or the
\* exception it raises
_parse_identifier(value, st) ==
    IF ~IsStr(value) THEN value ELSE ParseStr(value.str, st)

-----------------------------------------------------------------------------
(* ResourceProcessor: documents to statements.  A document is the list of  *)
(* the (key, value) items of a dict, in the dict's order; a list value is  *)
(* [list |-> its elements], a dict value [dict |-> its items].  A          *)
(* statement is its triple [s, p, o]; the statement at place i of the      *)
(* repository is StRef(i), and the j-th statement of a transaction built   *)
(* on a repository of base statements is StRef(base + j).  c holds the     *)
(* transaction (tx), what was printed and an exception on its way out.     *)

\* the key '+' of an annotated object
Plus == 43

\* the reserved keys '..s' and '..r'
K_s == <<46, 46, 115>>
K_r == <<46, 46, 114>>

\* objects if type(objects) == list else [objects]
AsList(v) == IF "list" \in DOMAIN v THEN v.list ELSE <<v>>

\* key in d
HasKey(items, k) == \E i \in 1..Len(items) : items[i].k = k

\* d[key]
Get(items, k) == items[CHOOSE i \in 1..Len(items) : items[i].k = k].v

Triple(s, p, o) == [s |-> s, p |-> p, o |-> o]

\* the places of a transaction that hold the triple
TxFind(tx, s, p, o) == {j \in 1..Len(tx) : tx[j] = Triple(s, p, o)}

\* transaction.add(s, p, o): the statement it returns and the transaction
\* afterwards.  A subject of None makes a statement that is its own
\* subject; a triple the transaction holds already is not added again
add(c, s, p, o) ==
    IF s = None
    THEN [c |-> [c EXCEPT !.tx = Append(@,
                     Triple(StRef(c.base + Len(c.tx) + 1), p, o))],
          st |-> StRef(c.base + Len(c.tx) + 1)]
    ELSE IF TxFind(c.tx, s, p, o) # {}
    THEN [c |-> c, st |-> StRef(c.base + First(TxFind(c.tx, s, p, o)))]
    ELSE [c |-> [c EXCEPT !.tx = Append(@, Triple(s, p, o))],
          st |-> StRef(c.base + Len(c.tx) + 1)]

\* self.statements.submit(transaction): the repository afterwards
submit(st, tx) == st \o tx

\* the pairs (kk, vv) of one item of an annotated object
MetaOfItem(item, kk) ==
    [i \in 1..Len(AsList(item.v)) |-> [pr |-> kk, ob |-> AsList(item.v)[i]]]

\* meta_objs of an annotated object with the given items: the pairs, or
\* the exception raised on the way
RECURSIVE MetaObjs(_, _)
MetaObjs(items, st) ==
    IF items = << >> THEN [pairs |-> << >>]
    ELSE IF items[1].k = <<Plus>> THEN MetaObjs(Tail(items), st)
    ELSE IF Raises(_parse_identifier(Str(items[1].k), st))
    THEN _parse_identifier(Str(items[1].k), st)
    ELSE IF Raises(MetaObjs(Tail(items), st)) THEN MetaObjs(Tail(items), st)
    ELSE [pairs |-> MetaOfItem(items[1],
                        _parse_identifier(Str(items[1].k), st))
                    \o MetaObjs(Tail(items), st).pairs]

\* the loop over meta_objs of the branch for an existing triple, every
\* pair being added whether it exists or not
RECURSIVE ExistingMeta_unconditional(_, _, _, _)
ExistingMeta_unconditional(c, stref, pairs, st) ==
    IF pairs = << >> THEN c
    ELSE ExistingMeta_unconditional(
             add(c, stref, pairs[1].pr, pairs[1].ob).c,
             stref, Tail(pairs), st)

\* the loop over meta_objs of the branch for an existing triple st: a pair
\* is added if the repository holds no such statement on st
RECURSIVE ExistingMeta(_, _, _, _)
ExistingMeta(c, stref, pairs, st) ==
    IF pairs = << >> THEN c
    ELSE ExistingMeta(
             IF find(st, stref, pairs[1].pr, pairs[1].ob) = {}
             THEN add(c, stref, pairs[1].pr, pairs[1].ob).c
             ELSE c,
             stref, Tail(pairs), st)

\* the loop over meta_objs of the branch for a new triple st
RECURSIVE NewMeta(_, _, _)
NewMeta(c, stref, pairs) ==
    IF pairs = << >> THEN c
    ELSE NewMeta(add(c, stref, pairs[1].pr, pairs[1].ob).c, stref,
                 Tail(pairs))

\* existing_objects: the objects of the statements find(s=resource, p=p)
\* gives
existing_objects(resource, p, st) ==
    {st[i].o : i \in find(st, resource, p, None)}

Printing(c, msg, o) ==
    [c EXCEPT !.printed = Append(@, [msg |-> msg, o |-> o])]

\* the branch "if o in existing_objects"
ExistingTriple(c, resource, p, o, pairs, st) ==
    Printing(ExistingMeta(c, StRef(First(find(st, resource, p, o))), pairs,
                          st),
             "EXISTING", o)

\* the branch "elif not o in existing_objects and not (p == s.type and
\* o == s.Resource)", after its test
NewTriple(c, main_ref, p, o, pairs) ==
    NewMeta(add(Printing(c, "NEW", o), main_ref, p, o).c,
            add(Printing(c, "NEW", o), main_ref, p, o).st, pairs)

\* the two branches on the resolved object o, every object being taken
\* for a new one
Branches_no_check(c, resource, main_ref, p, o, pairs, st) ==
    IF ~(p = Lookup(S_type) /\ o = Lookup(S_Resource))
    THEN NewTriple(c, main_ref, p, o, pairs)
    ELSE c

\* the two branches on the resolved object o
Branches(c, resource, main_ref, p, o, pairs, st) ==
    IF o \in existing_objects(resource, p, st)
    THEN ExistingTriple(c, resource, p, o, pairs, st)
    ELSE IF ~(p = Lookup(S_type) /\ o = Lookup(S_Resource))
    THEN NewTriple(c, main_ref, p, o, pairs)
    ELSE c

\* the object reference of o_ref: o_ref['+'] of an annotated object
ObjectRef(o_ref) ==
    IF "dict" \in DOMAIN o_ref /\ HasKey(o_ref.dict, <<Plus>>)
    THEN Get(o_ref.dict, <<Plus>>)
    ELSE o_ref

\* the items that annotate o_ref
ObjectItems(o_ref) ==
    IF "dict" \in DOMAIN o_ref /\ HasKey(o_ref.dict, <<Plus>>)
    THEN o_ref.dict
    ELSE << >>

\* the body of the loop over objects, for one o_ref
OneObject(c, resource, main_ref, p, o_ref, st) ==
    IF Raises(_parse_identifier(ObjectRef(o_ref), st))
    THEN [c EXCEPT !.raised = _parse_identifier(ObjectRef(o_ref), st)]
    ELSE IF Raises(MetaObjs(ObjectItems(o_ref), st))
    THEN [c EXCEPT !.raised = MetaObjs(ObjectItems(o_ref), st)]
    ELSE Branches(c, resource, main_ref, p,
                  _parse_identifier(ObjectRef(o_ref), st),
                  MetaObjs(ObjectItems(o_ref), st).pairs, st)

\* the loop over objects
RECURSIVE Objects(_, _, _, _, _, _)
Objects(c, resource, main_ref, p, objects, st) ==
    IF objects = << >> \/ c.raised # None THEN c
    ELSE Objects(OneObject(c, resource, main_ref, p, objects[1], st),
                 resource, main_ref, p, Tail(objects), st)

\* the body of the loop over attributes.items(), for one item
OneAttribute(c, resource, main_ref, item, st) ==
    IF startswith(item.k, <<Dot, Dot>>) THEN c
    ELSE IF Raises(_parse_identifier(Str(item.k), st))
    THEN [c EXCEPT !.raised = _parse_identifier(Str(item.k), st)]
    ELSE Objects(c, resource, main_ref,
                 _parse_identifier(Str(item.k), st), AsList(item.v), st)

\* the loop over attributes.items()
RECURSIVE Attributes(_, _, _, _, _)
Attributes(c, resource, main_ref, attributes, st) ==
    IF attributes = << >> \/ c.raised # None THEN c
    ELSE Attributes(OneAttribute(c, resource, main_ref, attributes[1], st),
                    resource, main_ref, Tail(attributes), st)

\* the transaction update_resource starts with
NewTransaction(st) ==
    [tx |-> << >>, base |-> Len(st), printed |-> << >>, raised |-> None]

\* update_resource up to the submission: the transaction it has built
BuildTransaction(resource, attributes, st) ==
    IF resource # None
    THEN Attributes(NewTransaction(st), resource, resource, attributes, st)
    ELSE Attributes(
             add(NewTransaction(st), None, Lookup(S_type),
                 Lookup(S_Resource)).c,
             resource,
             add(NewTransaction(st), None, Lookup(S_type),
                 Lookup(S_Resource)).st,
             attributes, st)

\* what a call leaves: the repository, the transaction, the exception
Outcome(c, st) ==
    [sts |-> IF c.raised = None THEN submit(st, c.tx) ELSE st,
     tx |-> c.tx, raised |-> c.raised, printed |-> c.printed]

\* update_resource putting its statements in the place of those the subject
\* has with a predicate of the document
update_resource_replace(resource, attributes, st) ==
    [Outcome(BuildTransaction(resource, attributes, st), st) EXCEPT
        !.sts = SelectSeq(st, LAMBDA t :
                    ~(t.s = resource /\ \E i \in 1..Len(attributes) :
                          ~startswith(attributes[i].k, <<Dot, Dot>>)
                          /\ t.p = _parse_identifier(Str(attributes[i].k),
                                                     st)))
                \o BuildTransaction(resource, attributes, st).tx]

\* ResourceProcessor.update_resource
update_resource(resource, attributes, st) ==
    Outcome(BuildTransaction(resource, attributes, st), st)

\* ResourceProcessor.load: the resolved identifier
load(identifier, st) == _parse_identifier(identifier, st)

\* the subject update_from_doc loads: of '..s', else of '..r', else None
DocSubject(doc, st) ==
    IF HasKey(doc, K_s) THEN load(Get(doc, K_s), st)
    ELSE IF HasKey(doc, K_r) THEN load(Get(doc, K_r), st)
    ELSE None

\* ResourceProcessor.update_from_doc
update_from_doc(doc, st) ==
    IF Raises(DocSubject(doc, st))
    THEN [sts |-> st, tx |-> << >>, raised |-> DocSubject(doc, st),
          printed |-> << >>]
    ELSE update_resource(DocSubject(doc, st), doc, st)

-----------------------------------------------------------------------------
(* The volumes the runs start from *)

File(size, mtime, readable, content) ==
    [kind |-> "file", st_size |-> size, st_mtime |-> mtime,
     readable |-> readable, content |-> content, target |-> "none"]

Dir == [kind |-> "dir", st_size |-> 0, st_mtime |-> 0, readable |-> TRUE,
        content |-> 0, target |-> "none"]

Symlink(target) ==
    [kind |-> "symlink", st_size |-> 0, st_mtime |-> 0, readable |-> TRUE,
     content |-> 0, target |-> target]

\* the record the catalog holds for a file synchronised at time clk
Tracked(path, size, mtime, content, clk) ==
    [path |-> path, size |-> size,
     mtime |-> isoformat(fromtimestamp(mtime)),
     sha256 |-> sha256_b64(content), lastverify |-> isoformat(now(clk))]

\* what a path of a flat volume may be, locally and remotely
Kinds == {"none", "new", "newDenied", "deleted", "same", "resized",
          "touched", "touchedDenied"}

\* modification times, in half microseconds: 1.0000015 s (rounded to
\* 1.000002 s) and 2 s
Mtimes == <<2000003, 4000000>>
OldMtime == Mtimes[1]
NewMtime == Mtimes[2]

HasLocal(kind) == kind \notin {"none", "deleted"}
HasRemote(kind) == kind \notin {"none", "new", "newDenied"}

LocalOf(kind) ==
    CASE kind \in {"new", "same"} -> File(1, OldMtime, TRUE, 1)
      [] kind = "newDenied" -> File(1, OldMtime, FALSE, 1)
      [] kind = "resized" -> File(2, OldMtime, TRUE, 2)
      [] kind = "touched" -> File(1, NewMtime, TRUE, 1)
      [] kind = "touchedDenied" -> File(1, NewMtime, FALSE, 1)

RemoteOf(path, kind) == Tracked(path, 1, OldMtime, 1, 0)

\* the files 'a', 'b', ... of a flat volume
FlatName(i) == <<96 + i>>

FlatFs(n, kindOf) ==
    LET paths == {FlatName(i) : i \in {j \in 1..n : HasLocal(kindOf[j])}}
    IN  [q \in paths |-> LocalOf(kindOf[q[1] - 96])]

FlatCatalog(n, kindOf) ==
    LET paths == {FlatName(i) : i \in {j \in 1..n : HasRemote(kindOf[j])}}
    IN  [q \in paths |-> RemoteOf(q, kindOf[q[1] - 96])]

\* everything but the volume itself, before the first run
InitRun ==
    /\ clock = 1
    /\ stack = << >>
    /\ results = None
    /\ idx = 0
    /\ limit = None
    /\ left = None
    /\ right = None
    /\ cur_left = None
    /\ cur_right = None
    /\ batch = EmptyDict
    /\ pc = "idle"
    /\ error = None
    /\ run = 0
    /\ emitted = << >>
    /\ produced = << >>
    /\ walked = << >>
    /\ fetched = << >>
    /\ calls = << >>
    /\ printed = << >>
    /\ ended = << >>
    /\ last = [op |-> "none"]
    /\ shown = [op |-> "none"]
    /\ edit = [pc |-> "idle"]
    /\ editor = [pc |-> "idle"]

\* a small flat volume, every path of any kind
Init ==
    /\ \E kindOf \in [1..NumNames -> Kinds] :
          /\ fs = FlatFs(NumNames, kindOf)
          /\ catalog = FlatCatalog(NumNames, kindOf)
    /\ exclude = None
    /\ sts = << >>
    /\ InitRun

\* a bulk volume of new files, a few paths at most being of another kind
InitBulk ==
    /\ \E S \in {T \in SUBSET (1..NumBulk) : Cardinality(T) <= MaxSpecial} :
       \E special \in [S -> Kinds \ {"new"}] :
          LET kindOf == [i \in 1..NumBulk |->
                            IF i \in S THEN special[i] ELSE "new"]
          IN  /\ fs = FlatFs(NumBulk, kindOf)
              /\ catalog = FlatCatalog(NumBulk, kindOf)
    /\ exclude = None
    /\ sts = << >>
    /\ InitRun

\* the names the entries of a nested tree are drawn from: 'a', 'a-', 'aa'
\* ('-' sorts before the separator, 'a' after it)
TreeNames == {<<97>>, <<97, 45>>, <<97, 97>>}

\* what an entry of a nested tree may be
TreeEntries == {File(1, OldMtime, TRUE, 1), Dir, Symlink("file"),
                Symlink("dir")}

\* the directories of tree t an entry can be added to
DirsOf(t) == {root} \cup {q \in DOMAIN t : t[q].kind = "dir"}

\* tree t with the entry e added at path p
WithEntry(t, p, e) ==
    [q \in DOMAIN t \cup {p} |-> IF q \in DOMAIN t THEN t[q] ELSE e]

\* the trees that hold one entry more than t
GrowOne(t) ==
    {WithEntry(t, Join(x[1], x[2]), x[3]) :
       x \in {y \in DirsOf(t) \X TreeNames \X TreeEntries :
                Join(y[1], y[2]) \notin DOMAIN t}}

\* the trees of T, and those with one more entry in the root or in one of
\* their directories
Grow(T) == T \cup UNION {GrowOne(t) : t \in T}

\* the trees of at most n entries
RECURSIVE Trees(_)
Trees(n) == IF n = 0 THEN {EmptyDict} ELSE Grow(Trees(n - 1))

\* a nested tree with directories, symlinks and an optional exclusion (of
\* the name 'a-', or of the name the root directory itself has); the catalog
\* is empty or tracks the path 'a-'
InitTree ==
    /\ fs \in Trees(MaxEntries)
    /\ exclude \in {None, [list |-> {<<97, 45>>}], [list |-> {RootName}]}
    /\ catalog \in {EmptyDict,
                    [q \in {<<97, 45>>} |-> RemoteOf(q, "same")]}
    /\ sts = << >>
    /\ InitRun

-----------------------------------------------------------------------------
(* The identifiers and documents the ResourceProcessor is called with *)

\* update_from_doc is called on a repository of fewer statements than this
MaxStatements == 6

\* the repository with one resource /M/x: its own statement, its type M
\* and its label 'x'
OneResource ==
    <<Triple(StRef(1), Lookup(S_type), Lookup(S_Resource)),
      Triple(StRef(1), Lookup(S_type), Lookup(<<77>>)),
      Triple(StRef(1), Lookup(S_label), Str(<<120>>))>>

\* the repository with the resource /M/x, its statement 'g' = 'a' and the
\* annotation 'g' = 'b' of that statement
Annotated ==
    OneResource
    \o <<Triple(StRef(1), Lookup(<<103>>), Str(<<97>>)),
         Triple(StRef(4), Lookup(<<103>>), Str(<<98>>))>>

\* the repository with two resources /M/x
Twins ==
    OneResource
    \o <<Triple(StRef(4), Lookup(S_type), Lookup(S_Resource)),
         Triple(StRef(4), Lookup(S_type), Lookup(<<77>>)),
         Triple(StRef(4), Lookup(S_label), Str(<<120>>))>>

\* the values _parse_identifier is called with: an int, a statement, None,
\* and the strings '.label', '.q', '.q:a', '/M/x', '/M/y', '/q/x', '/Resource/M/x', '/M:x', '/x', 'file:a', 'file', 'a:b', 'a', './a', ''
Identifiers ==
    {[int |-> 5], StRef(1), None,
     Str(<<46, 108, 97, 98, 101, 108>>),
     Str(<<46, 113>>),
     Str(<<46, 113, 58, 97>>),
     Str(<<47, 77, 47, 120>>),
     Str(<<47, 77, 47, 121>>),
     Str(<<47, 113, 47, 120>>),
     Str(<<47, 82, 101, 115, 111, 117, 114, 99, 101, 47, 77, 47, 120>>),
     Str(<<47, 77, 58, 120>>),
     Str(<<47, 120>>),
     Str(<<102, 105, 108, 101, 58, 97>>),
     Str(<<102, 105, 108, 101>>),
     Str(<<97, 58, 98>>),
     Str(<<97>>),
     Str(<<46, 47, 97>>),
     Str(<<>>)}

\* the reserved identifier of a document: none, or '..r': '/M/x'
DocHeads ==
    {<< >>,
     <<[k |-> K_r, v |-> Str(<<47, 77, 47, 120>>)]>>}

\* the types of a document: none, or '.type': ['.Resource', '.M']
DocTypes ==
    {<< >>,
     <<[k |-> <<46, 116, 121, 112, 101>>,
        v |-> [list |-> <<Str(<<46, 82, 101, 115, 111, 117, 114, 99, 101>>), Str(<<46, 77>>)>>]]>>}

\* the label of a document: none, or '.label': 'x'
DocLabels ==
    {<< >>,
     <<[k |-> <<46, 108, 97, 98, 101, 108>>, v |-> Str(<<120>>)]>>}

\* the other item of a document: none, '.g': ['a', 'a'],
\* '.g': [{'+': 'a', '.g': 'b'}], '.g': [{'+': 'a', '.g': ['b', 'c']}],
\* or '.q': 'a' with a name that has no binding
DocTags ==
    {<< >>,
     <<[k |-> <<46, 103>>, v |-> [list |-> <<Str(<<97>>), Str(<<97>>)>>]]>>,
     <<[k |-> <<46, 103>>,
        v |-> [list |-> <<[dict |-> <<[k |-> <<Plus>>, v |-> Str(<<97>>)],
                                      [k |-> <<46, 103>>, v |-> Str(<<98>>)]>>]
                        >>]]>>,
     <<[k |-> <<46, 103>>,
        v |-> [list |-> <<[dict |-> <<[k |-> <<Plus>>, v |-> Str(<<97>>)],
                                      [k |-> <<46, 103>>,
                                       v |-> [list |-> <<Str(<<98>>),
                                                         Str(<<99>>)>>]]>>]
                        >>]]>>,
     <<[k |-> <<46, 113>>, v |-> Str(<<97>>)]>>}

\* the documents committed
Docs ==
    {d[1] \o d[2] \o d[3] \o d[4] :
        d \in DocHeads \X DocTypes \X DocLabels \X DocTags}

\* the volume side of the state while the ResourceProcessor is at work
InitRes ==
    /\ fs = EmptyDict
    /\ catalog = EmptyDict
    /\ exclude = None
    /\ sts \in {<< >>, OneResource, Annotated, Twins}
    /\ InitRun

-----------------------------------------------------------------------------
(* update_volume *)

\* the HTTP statuses the server may answer a POST with
Statuses == {200, 404, 500}

\* the fields of the three iterators, as one record
Iterators ==
    [left |-> left, right |-> right, cur_left |-> cur_left,
     cur_right |-> cur_right, stack |-> stack, results |-> results,
     idx |-> idx, limit |-> limit, reqs |-> << >>, walked |-> walked,
     fetched |-> fetched, raised |-> None]

SetIterators(c) ==
    /\ stack' = c.stack
    /\ results' = c.results
    /\ idx' = c.idx
    /\ limit' = c.limit
    /\ left' = c.left
    /\ right' = c.right
    /\ cur_left' = c.cur_left
    /\ cur_right' = c.cur_right
    /\ walked' = c.walked
    /\ fetched' = c.fetched

\* update_volume up to the for loop: the three iterators are built (the
\* CombinedIterator fetches the first item of each side) and the batch is
\* empty.  It is run on a fresh volume, and again after a run that returned.
UpdateVolume ==
    /\ pc \in {"idle", "done"}
    /\ run < MaxRuns
    /\ \E c \in {CombinedInit(<<root>>, catalog)} :
          /\ SetIterators(c)
          /\ calls' = c.reqs
          /\ pc' = IF c.raised = None THEN "loop" ELSE "raised"
          /\ error' = c.raised
    /\ batch' = EmptyDict
    /\ run' = run + 1
    /\ ended' = IF pc = "idle" THEN ended
                ELSE Append(ended, [pc |-> pc, error |-> error])
    /\ emitted' = << >>
    /\ produced' = << >>
    /\ printed' = << >>
    /\ UNCHANGED <<fs, exclude, catalog, clock, sts, last, shown, edit,
                   editor>>

\* the body of the for loop on the pair (local, remote): the
\* classification, the batch entry and _handle_file_batch(..., 10)
LoopBody(pair, reqs) ==
    \E st \in {_update_file_status(pair.local, pair.remote, clock)} :
    \E b1 \in {IF Truthy(st.k) THEN DictSet(batch, st.k.str, st.v)
               ELSE batch} :
    \E status \in IF ReachedTreshold(b1, LoopTreshold) THEN Statuses
                  ELSE {200} :
    \E h \in {_handle_file_batch(b1, LoopTreshold, status, catalog)} :
        /\ batch' = h.batch
        /\ catalog' = h.cat
        /\ calls' = calls \o reqs \o h.reqs
        /\ pc' = IF h.raised = None THEN "loop" ELSE "raised"
        /\ error' = h.raised
        /\ clock' = clock + 1
        /\ emitted' = Append(emitted, pair)
        /\ produced' = IF Truthy(st.k)
                       THEN Append(produced, [k |-> st.k.str, v |-> st.v])
                       ELSE produced
        /\ printed' = printed \o st.printed

\* one pass of the for loop: the next pair of the CombinedIterator, then
\* the body; an exception raised by the iterator leaves update_volume
LoopPass ==
    /\ pc = "loop"
    /\ ~(left = None /\ right = None)
    /\ \E n \in {CombinedNext(Iterators, catalog)} :
          /\ SetIterators(n.c)
          /\ IF Raises(n.retval)
             THEN /\ pc' = "raised"
                  /\ error' = n.retval
                  /\ calls' = calls \o n.c.reqs
                  /\ UNCHANGED <<batch, catalog, clock, emitted, produced,
                                 printed>>
             ELSE LoopBody(n.retval, n.c.reqs)
    /\ UNCHANGED <<fs, exclude, run, ended, sts, last, shown, edit, editor>>

\* the CombinedIterator is exhausted: the loop ends, the remainder goes
\* through _handle_file_batch(..., 1) and update_volume returns
LoopEnd ==
    /\ pc = "loop"
    /\ left = None /\ right = None
    /\ \E status \in IF ReachedTreshold(batch, FinalTreshold) THEN Statuses
                     ELSE {200} :
       \E h \in {_handle_file_batch(batch, FinalTreshold, status, catalog)} :
          /\ catalog' = h.cat
          /\ calls' = calls \o h.reqs
          /\ pc' = IF h.raised = None THEN "done" ELSE "raised"
          /\ error' = h.raised
    /\ UNCHANGED <<fs, exclude, clock, stack, results, idx, limit, left, right,
                   cur_left, cur_right, batch, run, emitted, produced,
                   walked, fetched, printed, ended, sts, last, shown, edit,
                   editor>>

Next == UpdateVolume \/ LoopPass \/ LoopEnd

Spec == Init /\ [][Next]_vars

SpecBulk == InitBulk /\ [][Next]_vars

SpecTree == InitTree /\ [][Next]_vars

-----------------------------------------------------------------------------
(* The ResourceProcessor's operations *)

syncvars == <<fs, exclude, catalog, clock, stack, results, idx, limit, left,
              right, cur_left, cur_right, batch, pc, error, run, emitted,
              produced, walked, fetched, calls, printed, ended>>

\* a call of _parse_identifier
ParseIdentifier ==
    /\ \E value \in Identifiers :
          last' = [op |-> "parse", value |-> value,
                   result |-> _parse_identifier(value, sts)]
    /\ UNCHANGED <<sts, shown, edit, editor, syncvars>>

\* a call of update_from_doc: the subject is loaded, the transaction built
\* and submitted
UpdateFromDoc ==
    /\ Len(sts) < MaxStatements
    /\ \E doc \in Docs : \E r \in {update_from_doc(doc, sts)} :
          /\ sts' = r.sts
          /\ last' = [op |-> "update", doc |-> doc,
                      resource |-> DocSubject(doc, sts), before |-> sts,
                      tx |-> r.tx, raised |-> r.raised,
                      printed |-> r.printed]
    /\ shown' = [op |-> "none"]
    /\ UNCHANGED <<edit, editor, syncvars>>

NextRes == ParseIdentifier \/ UpdateFromDoc

SpecRes == InitRes /\ [][NextRes]_vars

-----------------------------------------------------------------------------
(* Properties *)

\* the paths of the regular files the walker is to yield, whatever the
\* order: no symlink, no excluded name, under directories of which the
\* same holds
RECURSIVE Walkable(_)
Walkable(p) ==
    IF p = root THEN ~_is_excluded(root)
    ELSE /\ ~is_symlink(p)
         /\ ~_is_excluded(p)
         /\ Walkable(Parent(p))

\* the iterator itself raised (not StopIteration): update_volume ended with
\* an exception that is no answer of the server
IteratorRaised ==
    /\ pc = "raised"
    /\ error.raise \in {"AttributeError", "TypeError", "IndexError"}

\* C10: the paths the TreeFileIterator yields are strictly ascending under
\* the left key of the merge-differ, the path relative to the root
C10_WalkAscending ==
    \A i \in 1..Len(walked) : \A j \in 1..Len(walked) :
        i < j => StrLess(left_key(walked[i]).key, left_key(walked[j]).key)

\* the walker has yielded the file 'a-' and then a file inside its sibling
\* directory 'a'
C10_Witness ==
    \E i \in 1..Len(walked) : \E j \in 1..Len(walked) :
        /\ i < j
        /\ walked[i].rel = <<97, 45>>
        /\ Parent(walked[j].rel) = <<97>>


\* the paths the walker is to yield
LocalPaths == {q \in DOMAIN fs : fs[q].kind = "file" /\ Walkable(q)}

\* the mutate requests of this run, by their place in calls
Mutations == {i \in 1..Len(calls) : calls[i].op = "mutate"}

\* no request of this run has changed the catalog: it still holds the
\* records the run started from
CatalogAsAtStart == \A i \in Mutations : calls[i].status >= 400

\* the CombinedIterator returns no further pair: both sides are exhausted,
\* or it raised
IterationEnded ==
    \/ pc = "loop" /\ left = None /\ right = None
    \/ IteratorRaised

\* the key of an emitted pair
PairKey(pair) ==
    IF pair.local # None THEN pair.local.rel ELSE pair.remote.path

\* the places of emitted that hold a pair of key q
PairsOf(q) == {i \in 1..Len(emitted) : PairKey(emitted[i]) = q}

\* C1: for key-disjoint inputs L and R, iterating the CombinedIterator to
\* exhaustion emits exactly |L| + |R| pairs, every item in exactly one
\* pair, the keys of successive pairs strictly ascending
C1_DisjointMerge ==
    (IterationEnded /\ CatalogAsAtStart /\ LocalPaths \cap DOMAIN catalog = {})
    => /\ Len(emitted) = Cardinality(LocalPaths) + Cardinality(DOMAIN catalog)
       /\ \A q \in LocalPaths \cup DOMAIN catalog : Cardinality(PairsOf(q)) = 1
       /\ \A i \in 1..Len(emitted) : \A j \in 1..Len(emitted) :
             i < j => StrLess(PairKey(emitted[i]), PairKey(emitted[j]))

\* C2: whichever side runs out first, the CombinedIterator goes on emitting
\* the items of the other side and stops, with StopIteration and no other
\* error, exactly when both inputs are exhausted
C2_AsymmetricExhaustion ==
    /\ ~IteratorRaised
    /\ (pc = "loop" /\ left = None /\ right = None /\ CatalogAsAtStart)
       => \A q \in LocalPaths \cup DOMAIN catalog : PairsOf(q) # {}

\* C3: a key of both inputs is emitted as exactly one pair (local, remote)
\* of the two items with that key, a key of one input as exactly one pair
\* whose other side is None, and no pair combines two keys
C3_Pairing ==
    /\ \A i \in 1..Len(emitted) :
          (emitted[i].local # None /\ emitted[i].remote # None)
          => emitted[i].local.rel = emitted[i].remote.path
    /\ (IterationEnded /\ CatalogAsAtStart)
       => /\ \A q \in LocalPaths \cap DOMAIN catalog :
                {emitted[i] : i \in PairsOf(q)}
                    = {[local |-> PathObj(q), remote |-> catalog[q]]}
                /\ Cardinality(PairsOf(q)) = 1
          /\ \A q \in LocalPaths \ DOMAIN catalog :
                {emitted[i] : i \in PairsOf(q)}
                    = {[local |-> PathObj(q), remote |-> None]}
                /\ Cardinality(PairsOf(q)) = 1
          /\ \A q \in DOMAIN catalog \ LocalPaths :
                {emitted[i] : i \in PairsOf(q)}
                    = {[local |-> None, remote |-> catalog[q]]}
                /\ Cardinality(PairsOf(q)) = 1


\* the places of produced that hold the batch entry of path q
EntriesOf(q) == {j \in 1..Len(produced) : produced[j].k = q}

\* the size or the modification time of the local file differs from the
\* remote record's
Differs(local, remote) ==
    \/ fs[local.rel].st_size # remote.size
    \/ fromtimestamp(fs[local.rel].st_mtime) # fromisoformat(remote.mtime)

\* v is a fingerprint record of the local file at path q as it is now
FreshRecord(v, q) ==
    /\ v # None
    /\ v.size = fs[q].st_size
    /\ v.mtime = isoformat(fromtimestamp(fs[q].st_mtime))
    /\ v.sha256 = sha256_b64(fs[q].content)

\* C4: every pair falls into exactly one case: DELETED (local absent) gives
\* the entry remote path -> None, NEW (remote absent) and CHANGED (size or
\* mtime differing) give the entry relative path -> fresh fingerprint record,
\* UNCHANGED gives no entry
C4_Classification ==
    \A i \in 1..Len(emitted) :
        LET local == emitted[i].local
            remote == emitted[i].remote
        IN  IF local = None
            THEN \E j \in EntriesOf(remote.path) :
                    /\ EntriesOf(remote.path) = {j}
                    /\ produced[j].v = None
            ELSE IF remote = None \/ Differs(local, remote)
            THEN \E j \in EntriesOf(local.rel) :
                    /\ EntriesOf(local.rel) = {j}
                    /\ FreshRecord(produced[j].v, local.rel)
            ELSE EntriesOf(local.rel) = {}

\* C5: a run that follows a run which returned normally (all its batches
\* applied), the local tree being unchanged, produces no batch entry and
\* submits no mutation
C5_Idempotent ==
    (ended # << >> /\ ended[Len(ended)].pc = "done")
    => produced = << >> /\ Mutations = {}

\* C6: a file whose fingerprinting fails with a permission error is
\* skipped: no batch entry for its path is kept or submitted
C6_UnreadableSkipped ==
    \A q \in LocalPaths :
        ~fs[q].readable
        => /\ q \notin DOMAIN batch
           /\ \A i \in Mutations : q \notin DOMAIN calls[i].files

\* C7: when update_volume returns normally every batch entry produced in
\* the run was submitted in exactly one mutate_files call, nothing else was
\* submitted, and a batch that was submitted is no longer accumulated
C7_SubmittedOnce ==
    /\ pc = "done"
       => /\ \A j \in 1..Len(produced) :
                Cardinality({i \in Mutations :
                    /\ produced[j].k \in DOMAIN calls[i].files
                    /\ calls[i].files[produced[j].k] = produced[j].v}) = 1
          /\ \A i \in Mutations : \A q \in DOMAIN calls[i].files :
                EntriesOf(q) # {}
          /\ \A i \in Mutations : \A k \in Mutations :
                i # k => DOMAIN calls[i].files \cap DOMAIN calls[k].files = {}
    /\ pc = "loop"
       => \A i \in Mutations : DOMAIN batch \cap DOMAIN calls[i].files = {}

\* update_volume has returned after a flush inside the loop and the final
\* flush of the remainder
C7_Witness ==
    /\ pc = "done"
    /\ Cardinality(Mutations) >= 2
    /\ Len(produced) > LoopTreshold

\* a mutate request sent before the loop ended: any but a last request
\* that was followed by the return or the exception
InLoop(i) == i < Len(calls) \/ pc = "loop"

\* C8: no batch submitted inside the loop holds more entries than the
\* threshold, and after a pair has been processed the accumulated batch
\* holds no more than the threshold
C8_BatchBounded ==
    /\ \A i \in Mutations :
          InLoop(i) => Cardinality(DOMAIN calls[i].files) <= LoopTreshold
    /\ (pc = "loop" /\ emitted # << >>)
       => Cardinality(DOMAIN batch) <= LoopTreshold

\* a batch of exactly the threshold was submitted inside the loop, and the
\* loop goes on
C8_Witness ==
    /\ pc = "loop"
    /\ ~(left = None /\ right = None)
    /\ \E i \in Mutations :
          Cardinality(DOMAIN calls[i].files) = LoopTreshold

\* C9: a failed mutate_files call is the last request of the run: the
\* exception leaves update_volume, the batch is not sent again and no
\* batch or page request follows
C9_FailureIsFatal ==
    \A i \in Mutations :
        calls[i].status >= 400
        => /\ i = Len(calls)
           /\ pc = "raised"
           /\ error = _raise_from_request(calls[i].status)

\* a flush inside the loop failed while both sides still had items
C9_Witness ==
    /\ pc = "raised"
    /\ left # None /\ right # None
    /\ \E i \in Mutations : calls[i].status >= 400

-----------------------------------------------------------------------------
(* Properties of the two readers *)

\* a path below the root matches an exclusion pattern, the pattern being
\* evaluated relative to the walked root
ExcludedBelowRoot(p) == exclude # None /\ \E e \in exclude.list : Name(p) = e

\* p is the root, or neither it nor a directory between it and the root is
\* a symlink or matches an exclusion pattern
RECURSIVE KeptBelowRoot(_)
KeptBelowRoot(p) ==
    IF p = root THEN TRUE
    ELSE /\ ~is_symlink(p)
         /\ ~ExcludedBelowRoot(p)
         /\ KeptBelowRoot(Parent(p))

\* the regular files under the root the walker is to yield
TreeFiles == {q \in DOMAIN fs : fs[q].kind = "file" /\ KeptBelowRoot(q)}

\* C11: the TreeFileIterator yields, once each, precisely the regular files
\* under the root that are no symlinks, match no exclusion pattern and lie
\* under no symlinked or excluded directory below the root; when it is
\* exhausted it has yielded all of them
C11_WalkExactly ==
    /\ \A i \in 1..Len(walked) : \A j \in 1..Len(walked) :
          i < j => walked[i] # walked[j]
    /\ \A i \in 1..Len(walked) : walked[i].rel \in TreeFiles
    /\ (run > 0 /\ left = None)
       => {walked[i].rel : i \in 1..Len(walked)} = TreeFiles

\* the page requests of this run, in the order they were sent
GetCalls == SelectSeq(calls, LAMBDA c : c.op = "get")

\* the records of the first n pages of g, in the order the server gave them
RECURSIVE PageRecords(_, _)
PageRecords(g, n) ==
    IF n = 0 THEN << >> ELSE PageRecords(g, n - 1) \o g[n].response.results

\* C12: against a catalog that answers every request with the records after
\* the cursor, ascending, the ApiFileIterator yields the records of the
\* volume in ascending path order, none twice and none dropped, and when it
\* stops it has yielded every one of them
C12_EveryRecordOnce ==
    CatalogAsAtStart
    => /\ Len(fetched) <= Cardinality(DOMAIN catalog)
       /\ \A i \in 1..Len(fetched) :
             fetched[i] = catalog[SortedPaths(DOMAIN catalog)[i]]
       /\ (run > 0 /\ right = None)
          => Len(fetched) = Cardinality(DOMAIN catalog)

\* the reader has stopped after a volume of exactly one full page, which
\* took a second, empty page to find out
C12_Witness ==
    /\ run > 0 /\ right = None
    /\ CatalogAsAtStart
    /\ Len(fetched) = PageLimit
    /\ Len(GetCalls) = 2

\* C13: the first page request carries no cursor; every later one carries
\* the encoded path of the last record of the page before it and the
\* page-size hint; and a page is requested only after every record of the
\* pages before it has been yielded
C13_PageProtocol ==
    /\ \A i \in 1..Len(GetCalls) :
          /\ GetCalls[i].params.limit = preferred_limit
          /\ IF i = 1 THEN "after" \notin DOMAIN GetCalls[i].params
             ELSE /\ "after" \in DOMAIN GetCalls[i].params
                  /\ GetCalls[i - 1].response.results # << >>
                  /\ GetCalls[i].params.after
                        = b64encode(GetCalls[i - 1].response.results[
                              Len(GetCalls[i - 1].response.results)].path)
    /\ GetCalls # << >>
       => /\ Len(fetched) >= Len(PageRecords(GetCalls, Len(GetCalls) - 1))
          /\ Len(fetched) <= Len(PageRecords(GetCalls, Len(GetCalls)))
          /\ \A i \in 1..Len(fetched) :
                fetched[i] = PageRecords(GetCalls, Len(GetCalls))[i]

\* a second page has been requested and a record of it yielded
C13_Witness ==
    /\ Len(GetCalls) = 2
    /\ Len(fetched) > PageLimit

-----------------------------------------------------------------------------
(* Properties of the identifier resolver *)

\* the last call was _parse_identifier on a str
ParsedStr == last.op = "parse" /\ IsStr(last.value)

\* the name after the binding marker has a binding, and r is the statement
\* bound to it
BoundTo(name, r) ==
    \E i \in 1..NumBindings : BindingNames[i] = name /\ r = [ref |-> i]

\* C14: _parse_identifier applies the first rule that matches, in the
\* order: not a str (returned unchanged), leading binding marker (binding
\* lookup), leading '/' (path query), 'file:' (content reference), ':'
\* anywhere (deserialized), else literal; a string of several rules is
\* never handled by a later one
C14_RuleOrder ==
    last.op = "parse"
    => IF ~IsStr(last.value) THEN last.result = last.value
       ELSE IF startswith(last.value.str, <<Dot>>)
       THEN \/ BoundTo(From(last.value.str, 1), last.result)
            \/ last.result = [raise |-> "UnknownBindingError"]
       ELSE IF startswith(last.value.str, <<Slash>>)
       THEN \/ last.result = None
            \/ "ref" \in DOMAIN last.result
            \/ last.result = [raise |-> "UnknownBindingError"]
       ELSE IF startswith(last.value.str, S_file)
       THEN last.result = [blob |-> From(last.value.str, 5)]
       ELSE IF Contains(last.value.str, Colon)
       THEN last.result = [deserialized |-> last.value.str]
       ELSE last.result = last.value

\* a string with the 'file:' prefix, which also contains ':', has been
\* resolved to a content reference
C14_Witness ==
    /\ ParsedStr
    /\ startswith(last.value.str, S_file)
    /\ "blob" \in DOMAIN last.result

\* C15: a binding-prefixed identifier resolves to the statement bound to
\* the name when the table holds it and fails with UnknownBindingError
\* when it does not, whatever later rule the string would match
C15_BindingLookup ==
    (ParsedStr /\ startswith(last.value.str, <<Dot>>))
    => IF \E i \in 1..NumBindings :
              BindingNames[i] = From(last.value.str, 1)
       THEN BoundTo(From(last.value.str, 1), last.result)
       ELSE last.result = [raise |-> "UnknownBindingError"]

\* a name without a binding, in a string that contains ':', has failed
C15_Witness ==
    /\ ParsedStr
    /\ startswith(last.value.str, <<Dot>>)
    /\ Contains(last.value.str, Colon)
    /\ Raises(last.result)

\* the type names T1 ... Tn and the label of the path '/T1/.../Tn/Label'
PathTypes(path) ==
    {split(From(path, 1), Slash)[i] :
        i \in 1..(Len(split(From(path, 1), Slash)) - 1)}
PathLabel(path) ==
    split(From(path, 1), Slash)[Len(split(From(path, 1), Slash))]

\* the statement at place i of the repository is a resource of the path:
\* it has type Resource, every named type and the label
IsResourceOf(st, i, path) ==
    /\ find(st, StRef(i), Lookup(S_type), Lookup(S_Resource)) # {}
    /\ \A t \in PathTypes(path) :
          /\ ~Raises(Lookup(t))
          /\ find(st, StRef(i), Lookup(S_type), Lookup(t)) # {}
    /\ find(st, StRef(i), Lookup(S_label), Str(PathLabel(path))) # {}

\* r is the first resource of the path, or None when there is none
FirstResourceOrNone(st, path, r) ==
    IF \E i \in 1..Len(st) : IsResourceOf(st, i, path)
    THEN \E i \in 1..Len(st) :
            /\ IsResourceOf(st, i, path)
            /\ \A j \in 1..(i - 1) : ~IsResourceOf(st, j, path)
            /\ r = StRef(i)
    ELSE r = None

\* the last call resolved a str with a leading '/'
ParsedPath == ParsedStr /\ startswith(last.value.str, <<Slash>>)

\* C16 as stated: a path resolves to the first resource that has type
\* Resource, every named type and the label, and to None, not an error,
\* for every path no resource exists for
C16_PathOrNone ==
    ParsedPath => FirstResourceOrNone(sts, last.value.str, last.result)

\* C16 amended: so it is for every path whose type names all have a
\* binding; a path that names a type without a binding fails with
\* UnknownBindingError
C16_PathOrNoneBound ==
    ParsedPath
    => IF \E t \in PathTypes(last.value.str) \ {S_Resource} :
              Raises(Lookup(t))
       THEN last.result = [raise |-> "UnknownBindingError"]
       ELSE FirstResourceOrNone(sts, last.value.str, last.result)

\* a path of bound types has resolved to None while the repository holds
\* a resource of the same types and another label
C16_Witness ==
    /\ ParsedPath
    /\ last.result = None
    /\ last.value.str # <<Slash>> \o PathLabel(last.value.str)
    /\ \E i \in 1..Len(sts) :
          \A t \in PathTypes(last.value.str) :
              /\ ~Raises(Lookup(t))
              /\ find(sts, StRef(i), Lookup(S_type), Lookup(t)) # {}

-----------------------------------------------------------------------------
(* Properties of the document mapper *)

\* the last call was update_from_doc and it submitted its transaction
Committed == last.op = "update" /\ last.raised = None

\* the places of the items of a document that are no reserved keys
PredicateItems(doc) ==
    {i \in 1..Len(doc) : ~startswith(doc[i].k, <<Dot, Dot>>)}

\* the set of the meta pairs that annotate o_ref
MetaSet(o_ref, st) ==
    {MetaObjs(ObjectItems(o_ref), st).pairs[k] :
        k \in 1..Len(MetaObjs(ObjectItems(o_ref), st).pairs)}

\* the pairs (predicate, object) of a document, resolved, each with the
\* meta pairs annotated on it
DocPairs(doc, st) ==
    UNION {{[p |-> _parse_identifier(Str(doc[i].k), st),
             o |-> _parse_identifier(ObjectRef(AsList(doc[i].v)[j]), st),
             meta |-> MetaSet(AsList(doc[i].v)[j], st)] :
               j \in 1..Len(AsList(doc[i].v))} : i \in PredicateItems(doc)}

\* C17: on an existing subject, a document pair whose triple exists on the
\* subject adds no triple, and a meta pair annotated on it adds one
\* meta-statement with that triple as subject if and only if that
\* meta-statement does not exist yet
C17_ExistingTriple ==
    (Committed /\ last.resource # None)
    => \A d \in DocPairs(last.doc, last.before) :
          find(last.before, last.resource, d.p, d.o) # {}
          => /\ TxFind(last.tx, last.resource, d.p, d.o) = {}
             /\ \A m \in d.meta :
                   Cardinality(TxFind(last.tx,
                       StRef(First(find(last.before, last.resource, d.p,
                                        d.o))),
                       m.pr, m.ob))
                   = IF find(last.before,
                             StRef(First(find(last.before, last.resource,
                                              d.p, d.o))),
                             m.pr, m.ob) = {}
                     THEN 1 ELSE 0

\* a commit on an existing subject has added one annotation to an existing
\* triple and left out another that existed
C17_Witness ==
    /\ Committed /\ last.resource # None
    /\ Len(last.tx) = 1
    /\ \E d \in DocPairs(last.doc, last.before) :
          /\ find(last.before, last.resource, d.p, d.o) # {}
          /\ \E m \in d.meta :
                find(last.before,
                     StRef(First(find(last.before, last.resource, d.p,
                                      d.o))),
                     m.pr, m.ob) # {}
          /\ \E m \in d.meta :
                last.tx[1]
                  = Triple(StRef(First(find(last.before, last.resource, d.p,
                                            d.o))),
                           m.pr, m.ob)

\* the statement the j-th addition of the last transaction became
Added(j) == StRef(Len(last.before) + j)

\* C18: without an existing subject exactly one new resource statement
\* (type = Resource) is started, and for every pair of the document other
\* than type = Resource one triple with the new resource as subject is
\* added, followed by its annotated meta-statements with the new triple
\* as subject; no second type = Resource statement is added
C18_NewResource ==
    (Committed /\ last.resource = None)
    => /\ last.tx # << >>
       /\ last.tx[1] = Triple(Added(1), Lookup(S_type), Lookup(S_Resource))
       /\ {j \in 1..Len(last.tx) :
               last.tx[j].p = Lookup(S_type)
               /\ last.tx[j].o = Lookup(S_Resource)} = {1}
       /\ \A d \in DocPairs(last.doc, last.before) :
             ~(d.p = Lookup(S_type) /\ d.o = Lookup(S_Resource))
             => /\ Cardinality(TxFind(last.tx, Added(1), d.p, d.o)) = 1
                /\ \A m \in d.meta :
                      \E j \in TxFind(last.tx, Added(1), d.p, d.o) :
                      \E k \in TxFind(last.tx, Added(j), m.pr, m.ob) : k > j

C20_AppendOnly ==
    [][/\ Len(sts') >= Len(sts)
       /\ \A i \in 1..Len(sts) : sts'[i] = sts[i]]_vars

\* a document that leaves out a predicate its subject has was committed
\* and added statements
C20_Witness ==
    /\ Committed /\ last.resource # None
    /\ last.tx # << >>
    /\ sts = last.before \o last.tx
    /\ \E i \in find(last.before, last.resource, None, None) :
          \A d \in DocPairs(last.doc, last.before) : d.p # last.before[i].p

-----------------------------------------------------------------------------
(* call_text_editor.  The temporary file is its content and its            *)
(* modification time; log holds, in order, every invocation of the editor  *)
(* and every answer to the prompt.                                         *)

\* the editor is invoked at most this many times in one call
MaxInvocations == 3

\* the texts a file holds: '', 'a', 'b'
Texts == {<< >>, <<97>>, <<98>>}

\* what the user answers to "File unchanged, [r]eopen or [c]ontinue? [c] ":
\* 'r', 'c', '' or 'x'
Answers == {<<114>>, <<99>>, << >>, <<120>>}

\* the invocations of the editor in a log
Invocations(log) == {i \in 1..Len(log) : log[i].ev = "editor"}

\* the test of the while loop: first or (getmtime(fname) == before and
\* not input(...) != "r")
Reopen(e, answer) ==
    e.first \/ (e.mtime = e.before /\ ~(answer # <<114>>))

\* input() is reached whenever first is False
Prompted_any(e) == ~e.first

\* input() is reached: first is False and the modification time is before
Prompted(e) == ~e.first /\ e.mtime = e.before

\* the log after the test of the while loop
Asked(e, answer) ==
    IF Prompted(e) THEN Append(e.log, [ev |-> "input", answer |-> answer])
    ELSE e.log

\* what input() gives at the prompt: an answer, or EOFError when the
\* standard input has ended
Inputs ==
    {[answer |-> a] : a \in Answers} \cup {[raise |-> "EOFError"]}

\* call_text_editor up to the loop: the text is written to a new temporary
\* file (tmp: the file is there) and its modification time is recorded
CallTextEditor ==
    /\ editor.pc \in {"idle", "returned"}
    /\ \E text \in Texts :
          editor' = [pc |-> "while", given |-> text, text |-> text,
                     mtime |-> clock, before |-> clock, first |-> TRUE,
                     log |-> << >>, tmp |-> TRUE]
    /\ UNCHANGED <<sts, last, shown, edit, syncvars>>

\* the call is left by an exception: nothing catches it, and nothing
\* follows the statement that raised
EditorRaised(e, log, exc) ==
    [pc |-> "raised", given |-> e.given, before |-> e.before,
     mtime |-> e.mtime, text |-> e.text, log |-> log, raised |-> exc,
     tmp |-> e.tmp]

\* one test of the while loop and what follows it: the editor is run on the
\* file, which the user saves or not, or the file is read, unlinked and
\* its content returned.  input() raises EOFError when the standard input
\* has ended, subprocess.call raises FileNotFoundError when the editor
\* command is not there.
EditorLoop ==
    /\ editor.pc = "while"
    /\ \E in \in IF Prompted(editor) THEN Inputs
                  ELSE {[answer |-> <<99>>]} :
          IF Raises(in)
          THEN editor' = EditorRaised(editor, editor.log, in)
          ELSE IF Reopen(editor, in.answer)
          THEN /\ Cardinality(Invocations(editor.log)) < MaxInvocations
               /\ \/ \E text \in Texts : \E saved \in BOOLEAN :
                        editor' = [editor EXCEPT
                           !.first = FALSE,
                           !.text = text,
                           !.mtime = IF saved THEN @ + 1 ELSE @,
                           !.log = Append(Asked(editor, in.answer),
                                     [ev |-> "editor", text |-> text,
                                      mtime |-> IF saved
                                                THEN editor.mtime + 1
                                                ELSE editor.mtime])]
                  \/ editor' = EditorRaised(editor,
                                   Asked(editor, in.answer),
                                   [raise |-> "FileNotFoundError"])
          ELSE editor' = [pc |-> "returned", given |-> editor.given,
                          before |-> editor.before, mtime |-> editor.mtime,
                          text |-> editor.text,
                          log |-> Asked(editor, in.answer),
                          result |-> editor.text, tmp |-> FALSE]
    /\ UNCHANGED <<sts, last, shown, edit, syncvars>>

NextEditor == CallTextEditor \/ EditorLoop

\* no volume and an empty repository
InitPlain ==
    /\ fs = EmptyDict
    /\ catalog = EmptyDict
    /\ exclude = None
    /\ sts = << >>
    /\ InitRun

SpecEditor == InitPlain /\ [][NextEditor]_vars

-----------------------------------------------------------------------------
(* Properties of call_text_editor *)

\* the modification time of the file when log[i] happened
MtimeBefore(e, i) ==
    IF \E j \in Invocations(e.log) : j < i
    THEN e.log[CHOOSE j \in Invocations(e.log) :
                 j < i /\ \A k \in Invocations(e.log) : k < i => k <= j].mtime
    ELSE e.before

-----------------------------------------------------------------------------
(* ResourceProcessor: statements to documents.  Inverted(p) is             *)
(* [inv |-> p].  A document under construction is the list of its items    *)
(* [k, v], k being the key as a value and v the list of the values         *)
(* appended to it.                                                         *)

\* the inversion marker '~'
Tilde == 126

Inverted(p) == [inv |-> p]

\* type(value) == Statement
IsStatement(value) == "ref" \in DOMAIN value

\* type(value) == int
IsInt(value) == "int" \in DOMAIN value

\* b.reverse_exists(value): the value is one of the bindings
reverse_exists(value) ==
    IF IsStatement(value) THEN value.ref \in 1..NumBindings ELSE FALSE

\* b.reverse(value): the name the value is bound to, None without one
reverse(value) ==
    IF reverse_exists(value) THEN Str(BindingNames[value.ref]) ELSE None

\* serialize(value): 's:<id>' for a statement, the text it was read from
\* for a deserialized value, a typed text for any other value
RECURSIVE serialize(_)
serialize(value) ==
    IF IsStatement(value) THEN Str(<<115, Colon, 64 + value.ref>>)
    ELSE IF "deserialized" \in DOMAIN value THEN Str(value.deserialized)
    ELSE IF "inv" \in DOMAIN value
    THEN Str(<<Tilde>> \o serialize(value.inv).str)
    ELSE IF IsStr(value) THEN value
    ELSE IF IsInt(value) THEN Str(<<105, Colon, 48 + value.int>>)
    ELSE IF "blob" \in DOMAIN value
    THEN Str(<<98, 108, 111, 98, Colon>> \o value.blob)
    ELSE Str(<<110, Colon>>)

\* the elements of a set of places, in ascending order
RECURSIVE Ascending(_)
Ascending(S) ==
    IF S = {} THEN << >> ELSE <<First(S)>> \o Ascending(S \ {First(S)})

\* [s.triple[2] for s in result.find(s=value, p=p)]
ObjectsOf(st, value, p) ==
    [n \in 1..Cardinality(find(st, value, p, None)) |->
        st[Ascending(find(st, value, p, None))[n]].o]

\* the names of the types other than Resource, those without a name
\* filtered out
type_elements(st, value) ==
    SelectSeq([n \in 1..Len(ObjectsOf(st, value, Lookup(S_type))) |->
                  IF ObjectsOf(st, value, Lookup(S_type))[n]
                       = Lookup(S_Resource)
                  THEN None
                  ELSE reverse(ObjectsOf(st, value, Lookup(S_type))[n])],
              LAMBDA t : t # None)

\* labels[0:1]
FirstLabel(st, value) ==
    SubSeq(ObjectsOf(st, value, Lookup(S_label)), 1,
           Min(1, Len(ObjectsOf(st, value, Lookup(S_label)))))

\* '/'.join(parts) of parts that all are str, with a leading ''
RECURSIVE slashed(_)
slashed(parts) ==
    IF parts = << >> THEN << >>
    ELSE <<Slash>> \o parts[1].str \o slashed(Tail(parts))

\* '/'.join([''] + parts): TypeError when a part is not a str
join(parts) ==
    IF \A n \in 1..Len(parts) : IsStr(parts[n])
    THEN Str(slashed(parts))
    ELSE [raise |-> "TypeError"]

\* the last return of _make_identifier_lazy
AsIs(value) ==
    IF IsStr(value) \/ IsInt(value) THEN value ELSE serialize(value)

\* ResourceProcessor._make_identifier_lazy: the identifier, or the
\* exception it raises
_make_identifier_lazy(value, st) ==
    IF reverse_exists(value)
    THEN Str(<<Dot>> \o reverse(value).str)
    ELSE IF "inv" \in DOMAIN value /\ reverse_exists(value.inv)
    THEN Str(<<Tilde, Dot>> \o reverse(value.inv).str)
    ELSE IF IsStatement(value) /\ Len(type_elements(st, value)) > 0
                               /\ Len(FirstLabel(st, value)) > 0
    THEN join(type_elements(st, value) \o FirstLabel(st, value))
    ELSE AsIs(value)

\* doc[k].append(val), the key being put at the end when it is new
DocAppend(items, k, val) ==
    IF \E n \in 1..Len(items) : items[n].k = k
    THEN [n \in 1..Len(items) |->
            IF items[n].k = k
            THEN [k |-> k, v |-> Append(items[n].v, val)]
            ELSE items[n]]
    ELSE Append(items, [k |-> k, v |-> <<val>>])

\* meta of the statement at place i: result.find(s=s) unless the statement
\* is its own subject
MetaOf(st, i) ==
    IF st[i].s # StRef(i) THEN find(st, StRef(i), None, None) ELSE {}

\* the loop over the statements of the subject: a statement with
\* meta-statements calls _make_identifier_lazy without its result argument
\* (TypeError), any other is appended under its predicate
RECURSIVE Forward(_, _, _)
Forward(items, places, st) ==
    IF places = << >> THEN [doc |-> items]
    ELSE IF MetaOf(st, places[1]) # {} THEN [raise |-> "TypeError"]
    ELSE Forward(DocAppend(items, st[places[1]].p, st[places[1]].o),
                 Tail(places), st)

\* the loop over the statements the subject is the object of, each
\* statement's subject appended under the inverted predicate
RECURSIVE Inverse(_, _, _)
Inverse(items, places, st) ==
    IF places = << >> THEN items
    ELSE Inverse(DocAppend(items, Inverted(st[places[1]].p),
                           st[places[1]].s),
                 Tail(places), st)

\* transform_doc on a value: every element of a list transformed
Rendered(vals, st) ==
    [n \in 1..Len(vals) |-> _make_identifier_lazy(vals[n], st)]

\* v[0] if type(v) == list and len(v) == 1 else v
Collapse(vals) == IF Len(vals) = 1 THEN vals[1] ELSE [list |-> vals]

\* d[k] = v of a dict of str keys, a key that is there keeping its place
DictPut(items, k, v) ==
    IF \E n \in 1..Len(items) : items[n].k = k
    THEN [n \in 1..Len(items) |->
            IF items[n].k = k THEN [k |-> k, v |-> v] ELSE items[n]]
    ELSE Append(items, [k |-> k, v |-> v])

\* transform_doc(doc, my_make_identifier) after the collapse of the
\* one-element lists: every key and every value through
\* _make_identifier_lazy, the keys coming out as str
RECURSIVE Transformed(_, _, _)
Transformed(out, items, st) ==
    IF items = << >> THEN [doc |-> out]
    ELSE IF Raises(_make_identifier_lazy(items[1].k, st))
    THEN _make_identifier_lazy(items[1].k, st)
    ELSE IF \E n \in 1..Len(items[1].v) :
                Raises(_make_identifier_lazy(items[1].v[n], st))
    THEN [raise |-> "TypeError"]
    ELSE Transformed(
            DictPut(out, _make_identifier_lazy(items[1].k, st).str,
                    Collapse(Rendered(items[1].v, st))),
            Tail(items), st)

\* the items '..s' and '..r' a document starts with
Reserved(r, st) ==
    <<[k |-> Str(K_s), v |-> <<serialize(r)>>],
      [k |-> Str(K_r), v |-> <<_make_identifier_lazy(r, st)>>]>>

\* ResourceProcessor._value_to_doc(r, result): [doc |-> the document], or
\* the exception it raises
_value_to_doc(r, st) ==
    IF Raises(_make_identifier_lazy(r, st))
    THEN _make_identifier_lazy(r, st)
    ELSE IF Raises(Forward(Reserved(r, st),
                           Ascending(find(st, r, None, None)), st))
    THEN [raise |-> "TypeError"]
    ELSE Transformed(<< >>,
            Inverse(Forward(Reserved(r, st),
                            Ascending(find(st, r, None, None)), st).doc,
                    Ascending(find(st, None, None, r)), st),
            st)

-----------------------------------------------------------------------------
(* Rendering: query renders statements of the repository as documents,     *)
(* read commits the documents of a file                                    *)

\* the repository with the resource /M/x, a resource without a type or a
\* label, and the statement (/M/x, g, that resource)
Linked ==
    OneResource
    \o <<Triple(StRef(4), Lookup(S_type), Lookup(S_Resource)),
         Triple(StRef(1), Lookup(<<103>>), StRef(4))>>

\* the repository with one resource of type M, its labels being the int 5
\* and 'x'
Numbered ==
    <<Triple(StRef(1), Lookup(S_type), Lookup(S_Resource)),
      Triple(StRef(1), Lookup(S_type), Lookup(<<77>>)),
      Triple(StRef(1), Lookup(S_label), [int |-> 5]),
      Triple(StRef(1), Lookup(S_label), Str(<<120>>))>>

\* the values _make_identifier_lazy is called with: the bindings, the
\* statements of the repository, and what a statement can have as its
\* object or a document as its key
Values(st) ==
    {[ref |-> i] : i \in 1..(NumBindings + Len(st))}
    \cup {st[i].o : i \in 1..Len(st)}
    \cup {Inverted(st[i].p) : i \in 1..Len(st)}
    \cup {Str(K_s), Str(<<97>>), Str(<<97, Colon, 98>>), [int |-> 5], None,
          [blob |-> <<97>>]}

InitDoc ==
    /\ fs = EmptyDict
    /\ catalog = EmptyDict
    /\ exclude = None
    /\ sts \in {OneResource, Linked, Numbered}
    /\ InitRun

\* a call of _make_identifier_lazy on the repository as it is
MakeIdentifier ==
    /\ \E value \in Values(sts) :
          shown' = [op |-> "identify", value |-> value,
                    result |-> _make_identifier_lazy(value, sts)]
    /\ UNCHANGED <<sts, last, edit, editor, syncvars>>

\* query: a statement of the result is rendered by _value_to_doc
Query ==
    /\ \E i \in 1..Len(sts) :
          shown' = [op |-> "doc", r |-> StRef(i),
                    result |-> _value_to_doc(StRef(i), sts)]
    /\ UNCHANGED <<sts, last, edit, editor, syncvars>>

\* StorageProcessor._files_to_docs for a file that no statement has as
\* its content: '__path', '__r' and '_content'
FileDoc(f) ==
    <<[k |-> <<95, 95, 112, 97, 116, 104>>, v |-> Str(f.real)],
      [k |-> <<95, 95, 114>>,
       v |-> Str(<<Slash>> \o S_ComputerFile \o <<Slash>> \o Name(f.real))],
      [k |-> <<95, 99, 111, 110, 116, 101, 110, 116>>,
       v |-> Str(<<98, 108, 111, 98, Colon>> \o f.sha256)]>>

\* the files of file_edit: '/x' of a volume at '/' and '/v/x' of a volume
\* at '/v', their digest being 'h'
Files ==
    {[real |-> <<Slash, 120>>, sha256 |-> <<104>>],
     [real |-> <<Slash, 118, Slash, 120>>, sha256 |-> <<104>>]}

\* file_edit up to the documents: _files_to_docs on a file
FilesToDocs ==
    /\ \E f \in Files :
          shown' = [op |-> "files", r |-> [file |-> f.real],
                    result |-> [doc |-> FileDoc(f)]]
    /\ UNCHANGED <<sts, last, edit, editor, syncvars>>

\* the document produced last is committed by update_from_doc, as read
\* does with the documents of a file and file_edit with its documents
ReadDoc ==
    /\ Len(sts) < MaxStatements
    /\ shown.op \in {"doc", "files"}
    /\ ~Raises(shown.result)
    /\ \E r \in {update_from_doc(shown.result.doc, sts)} :
          /\ sts' = r.sts
          /\ last' = [op |-> "update", doc |-> shown.result.doc,
                      resource |-> DocSubject(shown.result.doc, sts),
                      before |-> sts, tx |-> r.tx, raised |-> r.raised,
                      printed |-> r.printed, read |-> shown.r,
                      from |-> shown.op]
    /\ shown' = [op |-> "none"]
    /\ UNCHANGED <<edit, editor, syncvars>>

NextDoc ==
    MakeIdentifier \/ Query \/ FilesToDocs \/ ReadDoc \/ UpdateFromDoc

SpecDoc == InitDoc /\ [][NextDoc]_vars

-----------------------------------------------------------------------------
(* Properties of the rendering *)

\* the names of the bound types of a statement other than Resource, in the
\* order of its type statements
BoundTypeNames(st, v) ==
    SelectSeq([n \in 1..Cardinality(find(st, v, Lookup(S_type), None)) |->
                  st[Ascending(find(st, v, Lookup(S_type), None))[n]].o],
              LAMBDA t : reverse_exists(t) /\ t # Lookup(S_Resource))

\* the path '/T1/.../Tn/label' of the names and a label
RECURSIVE PathText(_, _)
PathText(types, label) ==
    IF types = << >> THEN <<Slash>> \o label
    ELSE <<Slash>> \o BindingNames[types[1].ref] \o PathText(Tail(types), label)

\* C26: _make_identifier_lazy gives the binding name for a binding;
\* otherwise, for a statement with at least one bound type other than
\* Resource and a label, the path of those type names and its first label;
\* otherwise a str or an int as it is and the serialized form of anything
\* else
C26_PreferenceOrder ==
    (shown.op = "identify" /\ "inv" \notin DOMAIN shown.value)
    => IF reverse_exists(shown.value)
       THEN shown.result = Str(<<Dot>> \o BindingNames[shown.value.ref])
       ELSE IF /\ IsStatement(shown.value)
               /\ BoundTypeNames(sts, shown.value) # << >>
               /\ find(sts, shown.value, Lookup(S_label), None) # {}
       THEN /\ ~Raises(shown.result)
            /\ IsStr(shown.result)
            /\ IsStr(sts[First(find(sts, shown.value, Lookup(S_label),
                                    None))].o)
               => shown.result.str
                  = PathText(BoundTypeNames(sts, shown.value),
                       sts[First(find(sts, shown.value, Lookup(S_label),
                                      None))].o.str)
       ELSE IF IsStr(shown.value) \/ IsInt(shown.value)
       THEN shown.result = shown.value
       ELSE shown.result = serialize(shown.value)

\* the values of a rendered item: the elements of a list, or the value
DocValues(v) == {AsList(v)[n] : n \in 1..Len(AsList(v))}

\* the rendered document has the pair (p, o)
HasPair(doc, p, o, st) ==
    \E n \in PredicateItems(doc) :
        /\ _parse_identifier(Str(doc[n].k), st) = p
        /\ \E v \in DocValues(doc[n].v) :
              _parse_identifier(ObjectRef(v), st) = o

\* the last commit made a new resource of a document whose predicates no
\* statement of the repository had, and that resource was rendered after
RoundTrip ==
    /\ Committed /\ last.resource = None
    /\ sts = last.before \o last.tx
    /\ shown.op = "doc" /\ shown.r = Added(1)
    /\ \A d \in DocPairs(last.doc, last.before) :
          find(last.before, None, d.p, None) = {}

\* C24: a document of new predicates committed for a new subject and
\* rendered by _value_to_doc comes back with every one of its pairs
C24_RoundTrip ==
    RoundTrip
    => /\ ~Raises(shown.result)
       /\ \A d \in DocPairs(last.doc, last.before) :
             HasPair(shown.result.doc, d.p, d.o, sts)

\* C25: a document rendered for a subject that is the object of a
\* statement (x, p, subject) and committed again adds no statement with
\* that subject as its subject and x as its object
C25_InverseDirection ==
    (Committed /\ "read" \in DOMAIN last)
    => \A i \in find(last.before, None, None, last.read) :
       \A j \in 1..Len(last.tx) :
          ~(last.tx[j].s = last.read /\ last.tx[j].o = last.before[i].s)

\* a key the mapper or the file workflow writes for itself: '..s', '..r',
\* '__path', '__r'
ReservedKey(k) ==
    startswith(k, <<Dot, Dot>>) \/ startswith(k, <<95, 95>>)

C21_Rendered ==
    (Committed /\ "from" \in DOMAIN last /\ last.from = "doc")
    => \A n \in 1..Len(last.doc) : \A j \in 1..Len(last.tx) :
          ReservedKey(last.doc[n].k)
          => last.tx[j].p # _parse_identifier(Str(last.doc[n].k),
                                              last.before)

-----------------------------------------------------------------------------
(* StorageProcessor: file_process and file_edit on the paths given.  The   *)
(* one configured volume is the local tree, a path is inside it (its path  *)
(* relative to the volume's root) or outside every volume.                 *)

\* how many paths one call is given
MaxPaths == 2

\* Blob(sha256), which 'blob:<sha256>' deserializes to
Blob(sha256) == [sha256 |-> sha256]

\* the repository with one resource whose content is the blob of the file
\* content 1
OneFile ==
    <<Triple(StRef(1), Lookup(S_type), Lookup(S_Resource)),
      Triple(StRef(1), Lookup(S_content), Blob(sha256_b64(1)))>>

\* the repository with two resources of that content
TwoFiles ==
    OneFile
    \o <<Triple(StRef(3), Lookup(S_type), Lookup(S_Resource)),
         Triple(StRef(3), Lookup(S_content), Blob(sha256_b64(1)))>>

\* StorageProcessor._process_path: the File of the path, or UserError
_process_path(path) ==
    IF path.inside /\ is_dir(path.rel)
    THEN [raise |-> "UserError", msg |-> "Cannot process directory"]
    ELSE IF path.inside
    THEN [rel |-> path.rel]
    ELSE [raise |-> "UserError", msg |-> "No volume found"]

\* d[k] = v of the dict comprehension: a key given again keeps its place
Put(files, f) ==
    IF \E i \in 1..Len(files) : files[i] = f THEN files
    ELSE Append(files, f)

\* the dict comprehension over the paths: it ends at the first exception
RECURSIVE Comprehension(_, _)
Comprehension(files, paths) ==
    IF paths = << >> THEN [files |-> files, raised |-> None]
    ELSE IF Raises(_process_path(paths[1]))
    THEN [files |-> << >>, raised |-> _process_path(paths[1])]
    ELSE Comprehension(Put(files, _process_path(paths[1])), Tail(paths))

\* the paths that cannot be processed being left out
ProcessPaths_skip(paths) ==
    Comprehension(<< >>,
                  SelectSeq(paths, LAMBDA q : ~Raises(_process_path(q))))

\* files_by_path = {p: self._process_path(p) for p in paths} and its values
ProcessPaths(paths) == Comprehension(<< >>, paths)

\* api.find_files: the records the catalog holds for the paths asked for
ServerFind(cat, files) ==
    [q \in {f.rel : f \in {files[i] : i \in 1..Len(files)}} \cap DOMAIN cat
        |-> cat[q]]

\* api_files[relpath] if relpath in api_files else None
ApiFile(api_files, rel) ==
    IF rel \in DOMAIN api_files THEN api_files[rel] ELSE None

\* one pass of the loop of _update_volume_files on file f
StatusPass(acc, f, st) ==
    [files |-> Append(acc.files, [rel |-> f.rel, file |-> st.v]),
     batch |-> IF Truthy(st.k) THEN DictSet(acc.batch, st.k.str, st.v)
               ELSE acc.batch,
     printed |-> acc.printed \o st.printed]

\* the loop of _update_volume_files: the files with their file record, the
\* batch and what was printed
RECURSIVE FileStatuses(_, _, _, _)
FileStatuses(acc, files, api_files, clk) ==
    IF files = << >> THEN acc
    ELSE FileStatuses(
             StatusPass(acc, files[1],
                        _update_file_status(PathObj(files[1].rel),
                            ApiFile(api_files, files[1].rel), clk)),
             Tail(files), api_files, clk)

\* the result of _update_volume_files after its loop: the batch goes
\* through _handle_file_batch(volume.name, batch, 1)
AfterStatuses(l, h) ==
    [files |-> l.files,
     reqs |-> <<[op |-> "find",
                 paths |-> [i \in 1..Len(l.files) |-> l.files[i].rel]]>>
              \o h.reqs,
     cat |-> h.cat, raised |-> h.raised, printed |-> l.printed]

\* StorageProcessor._update_volume_files, the server answering the POST
\* with the given status
_update_volume_files(files, cat, clk, status) ==
    AfterStatuses(
        FileStatuses([files |-> << >>, batch |-> EmptyDict,
                      printed |-> << >>],
                     files, ServerFind(cat, files), clk),
        _handle_file_batch(
            FileStatuses([files |-> << >>, batch |-> EmptyDict,
                          printed |-> << >>],
                         files, ServerFind(cat, files), clk).batch,
            FinalTreshold, status, cat))

\* StorageProcessor._update_files: one _update_volume_files for each volume
\* that has a file, which is the one volume or none
_update_files(files, cat, clk, status) ==
    IF files = << >>
    THEN [files |-> files, reqs |-> << >>, cat |-> cat, raised |-> None,
          printed |-> << >>]
    ELSE _update_volume_files(files, cat, clk, status)

\* _find_file_statements: Blob(f.file['sha256']) of a file whose record is
\* None is a TypeError
FindRaises(files) ==
    IF \E i \in 1..Len(files) : files[i].file = None
    THEN [raise |-> "TypeError"] ELSE None

\* f.statements of _add_file_statements: the statements of the query's
\* result that have the blob of the file as a content
FileStatements(f, st) ==
    {st[i].s : i \in find(st, None, Lookup(S_content), Blob(f.file.sha256))}

\* transaction.ensure(s, p, o): the triple is added unless the repository
\* or the transaction has it
ensure(c, s, p, o, st) ==
    IF find(st, s, p, o) # {} THEN c ELSE add(c, s, p, o).c

\* the kinds of MIME type _get_mime_type finds: a video, anything else, or
\* a type that is not the type of the file's extension
Mimes == {"video", "other", "mismatch"}

\* the ensure calls of file_process for the file f of statement s
Ensured(c, s, f, mime, st) ==
    IF mime = "mismatch"
    THEN [c EXCEPT !.raised = [raise |-> "UserError",
                               msg |-> "MIME type mismatch"]]
    ELSE \* the four ensure calls, then the one of a video
         IF mime = "video"
         THEN ensure(
                  ensure(
                      ensure(
                          ensure(
                              ensure(c, s, Lookup(S_type),
                                     Lookup(S_ComputerFile), st),
                              s, Lookup(S_label), Str(Name(f.rel)), st),
                          s, Lookup(S_content), Blob(f.file.sha256), st),
                      s, Lookup(S_file_size), [int |-> fs[f.rel].st_size],
                      st),
                  s, Lookup(S_type), Lookup(S_VideoFile), st)
         ELSE ensure(
                  ensure(
                      ensure(
                          ensure(c, s, Lookup(S_type),
                                 Lookup(S_ComputerFile), st),
                          s, Lookup(S_label), Str(Name(f.rel)), st),
                      s, Lookup(S_content), Blob(f.file.sha256), st),
                  s, Lookup(S_file_size), [int |-> fs[f.rel].st_size], st)

\* the body of the loop of file_process on the file f
FilePass(c, f, mime, st) ==
    IF FileStatements(f, st) = {}
    THEN Ensured(add(c, None, Lookup(S_type), Lookup(S_Resource)).c,
                 add(c, None, Lookup(S_type), Lookup(S_Resource)).st,
                 f, mime, st)
    ELSE IF Cardinality(FileStatements(f, st)) = 1
    THEN Ensured(c, CHOOSE x \in FileStatements(f, st) : TRUE, f, mime, st)
    ELSE Printing(c, "Can't handle more than 1 statement per file", None)

\* the loop of file_process over the files, an exception ending it
RECURSIVE FileLoop(_, _, _, _)
FileLoop(c, files, mimes, st) ==
    IF files = << >> \/ c.raised # None THEN c
    ELSE FileLoop(FilePass(c, files[1], mimes[1], st), Tail(files),
                  Tail(mimes), st)

\* file_process after _update_files: the transaction it builds
FileTransaction(files, mimes, st) ==
    IF FindRaises(files) # None
    THEN [NewTransaction(st) EXCEPT !.raised = FindRaises(files)]
    ELSE FileLoop(NewTransaction(st), files, mimes, st)

\* the files 'a' and 'b' of the volume of the file operations
FileNames == {FlatName(1), FlatName(2)}

\* what a file of that volume may be: new, new and unreadable, or tracked
FileKinds == {"new", "newDenied", "same"}

\* the directory 'd' of the volume
DirName == <<100>>

\* the paths a call may be given: the entries of the volume, and the file
\* 'a' outside every volume
PathArgs ==
    {[inside |-> TRUE, rel |-> q] : q \in DOMAIN fs}
    \cup {[inside |-> FALSE, rel |-> FlatName(1)]}

\* the lists of one path up to MaxPaths paths
PathLists == UNION {[1..n -> PathArgs] : n \in 1..MaxPaths}

\* the volume of the file operations and the repository
InitFile ==
    /\ \E kindOf \in [FileNames -> FileKinds] :
          /\ fs = [q \in FileNames \cup {DirName} |->
                      IF q = DirName THEN Dir ELSE LocalOf(kindOf[q])]
          /\ catalog = [q \in {n \in FileNames : HasRemote(kindOf[n])} |->
                           RemoteOf(q, kindOf[q])]
    /\ exclude = None
    /\ sts \in {<< >>, OneFile, TwoFiles}
    /\ InitRun

\* what a file operation leaves behind when the command ends
FileOutcome(op, paths, u, c, submitted) ==
    /\ pc' = IF c.raised = None THEN "done" ELSE "raised"
    /\ error' = c.raised
    /\ catalog' = u.cat
    /\ calls' = u.reqs
    /\ printed' = u.printed \o c.printed
    /\ sts' = IF submitted THEN submit(sts, c.tx) ELSE sts
    /\ last' = [op |-> op, paths |-> paths, catalog |-> catalog,
                before |-> sts, tx |-> c.tx, submitted |-> submitted,
                raised |-> c.raised]
    /\ clock' = clock + 1
    /\ run' = run + 1
    /\ UNCHANGED <<fs, exclude, stack, results, idx, limit, left, right,
                   cur_left, cur_right, batch, emitted, produced, walked,
                   fetched, ended, shown, edit, editor>>

\* the POST of _update_files is answered with any status when there is one
PostStatuses(files) ==
    IF Len(_update_files(files, catalog, clock, 200).reqs) > 1
    THEN Statuses ELSE {200}

\* file_process(paths)
FileProcess ==
    /\ pc = "idle"
    /\ \E paths \in PathLists :
       \E r \in {ProcessPaths(paths)} :
          IF r.raised # None
          THEN FileOutcome("file_process", paths,
                   _update_files(<< >>, catalog, clock, 200),
                   [NewTransaction(sts) EXCEPT !.raised = r.raised], FALSE)
          ELSE \E status \in PostStatuses(r.files) :
               \E u \in {_update_files(r.files, catalog, clock, status)} :
                  IF u.raised # None
                  THEN FileOutcome("file_process", paths, u,
                           [NewTransaction(sts) EXCEPT !.raised = u.raised],
                           FALSE)
                  ELSE \E mimes \in [1..Len(u.files) -> Mimes] :
                       \E c \in {FileTransaction(u.files, mimes, sts)} :
                          FileOutcome("file_process", paths, u, c,
                                      c.raised = None)

\* file_edit(paths): after _update_files and _files_to_docs it calls
\* self.rp.edit_docs, which the ResourceProcessor beside it does not have
FileEdit ==
    /\ pc = "idle"
    /\ \E paths \in PathLists :
       \E r \in {ProcessPaths(paths)} :
          IF r.raised # None
          THEN FileOutcome("file_edit", paths,
                   _update_files(<< >>, catalog, clock, 200),
                   [NewTransaction(sts) EXCEPT !.raised = r.raised], FALSE)
          ELSE \E status \in PostStatuses(r.files) :
               \E u \in {_update_files(r.files, catalog, clock, status)} :
                  FileOutcome("file_edit", paths, u,
                      [NewTransaction(sts) EXCEPT !.raised =
                          IF u.raised # None THEN u.raised
                          ELSE IF FindRaises(u.files) # None
                          THEN FindRaises(u.files)
                          ELSE [raise |-> "AttributeError"]],
                      FALSE)

\* StorageProcessor.get_blob_by_path(path_str): _process_path gives a File
\* (or raises UserError), and path_info['volume_name'] subscripts that File,
\* which a File does not support: TypeError, before _update_volume_files
\* and before the blob is made
get_blob_by_path(path) ==
    IF Raises(_process_path(path)) THEN _process_path(path)
    ELSE [raise |-> "TypeError"]

\* get_blob_by_path on one path, as the resolver calls it for 'file:<path>'
GetBlobByPath ==
    /\ pc = "idle"
    /\ \E path \in PathArgs :
       \E v \in {get_blob_by_path(path)} :
          /\ pc' = IF Raises(v) THEN "raised" ELSE "done"
          /\ error' = IF Raises(v) THEN v ELSE None
          /\ calls' = << >>
          /\ last' = [op |-> "get_blob_by_path", paths |-> <<path>>,
                      catalog |-> catalog, before |-> sts,
                      tx |-> << >>, submitted |-> FALSE,
                      raised |-> IF Raises(v) THEN v ELSE None,
                      result |-> IF Raises(v) THEN None ELSE v]
          /\ clock' = clock + 1
          /\ run' = run + 1
          /\ UNCHANGED <<fs, exclude, catalog, sts, printed, stack, results,
                         idx, limit, left, right, cur_left, cur_right, batch,
                         emitted, produced, walked, fetched, ended, shown,
                         edit, editor>>

NextFile == FileProcess \/ FileEdit \/ GetBlobByPath

SpecFile == InitFile /\ [][NextFile]_vars

\* some path of the last call cannot be processed
InvalidPath ==
    \E i \in 1..Len(last.paths) : Raises(_process_path(last.paths[i]))

\* C27: file_process or file_edit given a directory or a path outside
\* every volume ends with UserError, has sent no request, and leaves the
\* catalog and the repository as they were
C27_UserErrorNoMutation ==
    (last.op \in {"file_process", "file_edit"} /\ InvalidPath)
    => /\ Raises(last.raised) /\ last.raised.raise = "UserError"
       /\ calls = << >>
       /\ catalog = last.catalog
       /\ sts = last.before /\ ~last.submitted

\* file_process was given a new, readable file first and the directory
\* second, and has raised
C27_Witness ==
    /\ last.op = "file_process" /\ Len(last.paths) = 2
    /\ last.paths[1].inside /\ last.paths[1].rel \notin DOMAIN catalog
    /\ ~Raises(_process_path(last.paths[1]))
    /\ fs[last.paths[1].rel].readable
    /\ last.paths[2] = [inside |-> TRUE, rel |-> DirName]
    /\ Raises(last.raised)

-----------------------------------------------------------------------------
(* ResourceProcessor.set *)

\* '=' of the parameters 'k==v' and 'k=v'
Equals == 61

\* the places of '==' in a parameter
DoubleAt(param) ==
    {i \in 1..(Len(param) - 1) : param[i] = Equals /\ param[i + 1] = Equals}

\* param.split('==', 1)
SplitDouble(param) ==
    <<SubSeq(param, 1, First(DoubleAt(param)) - 1),
      From(param, First(DoubleAt(param)) + 1)>>

\* param.split('=', 1)
SplitOnce(param) ==
    <<split(param, Equals)[1], From(param, Len(split(param, Equals)[1]) + 1)>>

\* the filter k == v of a parameter 'k==v', or the exception of
\* _parse_identifier
Filter(param, st) ==
    IF Raises(_parse_identifier(Str(SplitDouble(param)[1]), st))
    THEN _parse_identifier(Str(SplitDouble(param)[1]), st)
    ELSE IF Raises(_parse_identifier(Str(SplitDouble(param)[2]), st))
    THEN _parse_identifier(Str(SplitDouble(param)[2]), st)
    ELSE [p |-> _parse_identifier(Str(SplitDouble(param)[1]), st),
          v |-> _parse_identifier(Str(SplitDouble(param)[2]), st)]

\* changes[k].append(v), the key being put at the end when it is new
Change(changes, k, v) ==
    IF HasKey(changes, k)
    THEN [i \in 1..Len(changes) |->
             IF changes[i].k = k
             THEN [k |-> k, v |-> [list |-> Append(changes[i].v.list, v)]]
             ELSE changes[i]]
    ELSE Append(changes, [k |-> k, v |-> [list |-> <<v>>]])

\* the loop of set over its parameters: the filters, the changes and the
\* identifier, an exception ending it
RECURSIVE SetParams(_, _, _)
SetParams(a, params, st) ==
    IF params = << >> THEN a
    ELSE IF DoubleAt(params[1]) # {}
    THEN IF Raises(Filter(params[1], st))
         THEN [a EXCEPT !.raised = Filter(params[1], st)]
         ELSE SetParams([a EXCEPT !.filters = @ \cup {Filter(params[1], st)}],
                        Tail(params), st)
    ELSE IF Contains(params[1], Equals)
    THEN SetParams([a EXCEPT !.changes =
                       Change(@, SplitOnce(params[1])[1],
                              Str(SplitOnce(params[1])[2]))],
                   Tail(params), st)
    ELSE SetParams([a EXCEPT !.identifier = Str(params[1])], Tail(params),
                   st)

\* the statement taken from the result of legacy_query whatever its length
Pick_first(statements) ==
    IF statements = {}
    THEN [statement |-> None, printed |-> << >>,
          raised |-> [raise |-> "IndexError"], returned |-> FALSE]
    ELSE [statement |-> StRef(First(statements)), printed |-> << >>,
          raised |-> None, returned |-> FALSE]

\* the statement set takes from the result of legacy_query: none of more
\* than one, set printing "TOO MANY" and returning; statements[0] otherwise
Pick(statements) ==
    IF Cardinality(statements) > 1
    THEN [statement |-> None, printed |-> <<"TOO MANY">>, raised |-> None,
          returned |-> TRUE]
    ELSE IF statements = {}
    THEN [statement |-> None, printed |-> << >>,
          raised |-> [raise |-> "IndexError"], returned |-> FALSE]
    ELSE [statement |-> StRef(First(statements)), printed |-> << >>,
          raised |-> None, returned |-> FALSE]

\* the statement set works on: the identifier's, or the one of the filters
Selected(a, st) ==
    IF a.identifier # None
    THEN [statement |-> _parse_identifier(a.identifier, st),
          printed |-> << >>,
          raised |-> IF Raises(_parse_identifier(a.identifier, st))
                     THEN _parse_identifier(a.identifier, st) ELSE None,
          returned |-> FALSE]
    ELSE Pick(legacy_query(st, a.filters))

\* ResourceProcessor.describe: it calls _value_to_doc(resource) without the
\* result argument that _value_to_doc(r, result) needs
describe(resource, st) == [raise |-> "TypeError"]

\* set after its parameters: the selection, then describe and
\* update_resource, which an exception or the return keeps it from
SetOutcome(a, sel, st) ==
    IF a.raised # None
    THEN [statement |-> None, printed |-> << >>, raised |-> a.raised,
          updated |-> FALSE]
    ELSE IF sel.returned \/ sel.raised # None
    THEN [statement |-> sel.statement, printed |-> sel.printed,
          raised |-> sel.raised, updated |-> FALSE]
    ELSE [statement |-> sel.statement, printed |-> sel.printed,
          raised |-> describe(sel.statement, st), updated |-> FALSE]

\* the parameters set is called with: '.type==.M', '.label==x',
\* '.type==.Z' of no binding, '.g=a' and the identifier '/M/x'
Params ==
    {<<Dot>> \o S_type \o <<Equals, Equals, Dot, 77>>,
     <<Dot>> \o S_label \o <<Equals, Equals, 120>>,
     <<Dot>> \o S_type \o <<Equals, Equals, Dot, 90>>,
     <<Dot, 103, Equals, 97>>,
     <<Slash, 77, Slash, 120>>}

\* how many parameters one call of set is given
MaxParams == 2

ParamLists == UNION {[1..n -> Params] : n \in 0..MaxParams}

\* a call of set
Set ==
    /\ \E params \in ParamLists :
       \E a \in {SetParams([filters |-> {}, changes |-> << >>,
                            identifier |-> None, raised |-> None],
                           params, sts)} :
       \E r \in {SetOutcome(a, Selected(a, sts), sts)} :
          last' = [op |-> "set", params |-> params, filters |-> a.filters,
                   changes |-> a.changes, identifier |-> a.identifier,
                   parsed |-> a.raised = None, statement |-> r.statement,
                   printed |-> r.printed, raised |-> r.raised,
                   updated |-> r.updated, before |-> sts]
    /\ shown' = [op |-> "none"]
    /\ UNCHANGED <<sts, edit, editor, syncvars>>

\* the repositories set is called on
InitSet ==
    /\ fs = EmptyDict
    /\ catalog = EmptyDict
    /\ exclude = None
    /\ sts \in {<< >>, OneResource, Annotated, Twins, Linked, Numbered,
                OneFile, TwoFiles}
    /\ InitRun

NextSet == Set

SpecSet == InitSet /\ [][NextSet]_vars

\* C28: set without an identifier whose filters match more than one
\* resource prints "TOO MANY" and returns: it takes no statement, does not
\* get to update_resource and leaves the repository as it was
C28_AmbiguousAborts ==
    (/\ last.op = "set" /\ last.parsed /\ last.identifier = None
     /\ Cardinality(legacy_query(last.before, last.filters)) > 1)
    => /\ last.statement = None
       /\ last.printed = <<"TOO MANY">>
       /\ last.raised = None
       /\ ~last.updated
       /\ sts = last.before

\* set was called with the filter '.type==.M' and the change '.g=a' on a
\* repository with two resources of type M
C28_Witness ==
    /\ last.op = "set" /\ last.parsed /\ last.identifier = None
    /\ last.filters = {[p |-> Lookup(S_type), v |-> Lookup(<<77>>)]}
    /\ last.changes # << >>
    /\ Cardinality(legacy_query(last.before, last.filters)) = 2
    /\ last.printed = <<"TOO MANY">>

-----------------------------------------------------------------------------
(* ResourceProcessor.edit: new, edit_docs and the commits.  The text of   *)
(* the editor is the list of documents that yaml.dump_all writes and       *)
(* yaml.load_all reads back.                                               *)

\* how many passes of the editor one edit may take
MaxPasses == 3

\* '_' of the keys and values that new writes
Underscore == 95

\* parts[:-1] without 'Resource', each with a leading '_'
RECURSIVE NewTypes(_)
NewTypes(parts) ==
    IF Len(parts) <= 1 THEN << >>
    ELSE IF parts[1] = S_Resource THEN NewTypes(Tail(parts))
    ELSE <<Str(<<Underscore>> \o parts[1])>> \o NewTypes(Tail(parts))

\* ResourceProcessor.new(reference) for a reference with a leading '/'
new(reference) ==
    <<[k |-> K_r, v |-> Str(reference)],
      [k |-> <<Underscore>> \o S_type,
       v |-> [list |-> <<Str(<<Underscore>> \o S_Resource)>>
                       \o NewTypes(split(From(reference, 1), Slash))]],
      [k |-> <<Underscore>> \o S_label,
       v |-> Str(split(From(reference, 1), Slash)
                     [Len(split(From(reference, 1), Slash))])]>>

\* the items of a document other than those of a key with a leading '..'
Fields(doc) == SelectSeq(doc, LAMBDA item : ~startswith(item.k, <<Dot, Dot>>))

\* add_reference over transform_doc: the strings with a leading '/', in
\* the order transform_doc comes to them, a key before its value
RECURSIVE RefsOfValue(_), RefsOfList(_), RefsOfItems(_)
RefsOfValue(v) ==
    IF IsStr(v)
    THEN IF startswith(v.str, <<Slash>>) THEN <<v.str>> ELSE << >>
    ELSE IF "list" \in DOMAIN v THEN RefsOfList(v.list)
    ELSE IF "dict" \in DOMAIN v THEN RefsOfItems(v.dict)
    ELSE << >>
RefsOfList(l) ==
    IF l = << >> THEN << >> ELSE RefsOfValue(l[1]) \o RefsOfList(Tail(l))
RefsOfItems(items) ==
    IF items = << >> THEN << >>
    ELSE (IF startswith(items[1].k, <<Slash>>) THEN <<items[1].k>>
          ELSE << >>)
         \o RefsOfValue(items[1].v) \o RefsOfItems(Tail(items))

\* references after the loop over the documents
RECURSIVE References(_)
References(docs) ==
    IF docs = << >> THEN << >>
    ELSE RefsOfItems(Fields(docs[1])) \o References(Tail(docs))

\* the inner loop looking at the first document only
Stops_first(docs, ref) ==
    {i \in 1..Min(1, Len(docs)) :
        ~HasKey(docs[i], K_r) \/ Get(docs[i], K_r) = Str(ref)}

\* the places of the documents the inner loop ends at: one without a key
\* '..r', or one whose '..r' is the reference
Stops(docs, ref) ==
    {i \in 1..Len(docs) :
        ~HasKey(docs[i], K_r) \/ Get(docs[i], K_r) = Str(ref)}

\* the body of the loop over the references with seen_new set for every
\* reference that no document declares
ScanRef_any(a, ref, st) ==
    IF Stops(a.docs, ref) # {}
       /\ ~HasKey(a.docs[First(Stops(a.docs, ref))], K_r)
    THEN [a EXCEPT !.raised = [raise |-> "KeyError"]]
    ELSE IF Stops(a.docs, ref) # {} THEN a
    ELSE IF Raises(load(Str(ref), st))
    THEN [a EXCEPT !.raised = load(Str(ref), st)]
    ELSE IF load(Str(ref), st) = None
    THEN [a EXCEPT !.docs = Append(@, new(ref)), !.seen_new = TRUE]
    ELSE [a EXCEPT !.seen_new = TRUE]

\* the body of the loop over the references: doc['..r'] raises KeyError
\* for a document without the key; a reference no document declares is
\* loaded, and gets a new document when it is not found
ScanRef(a, ref, st) ==
    IF Stops(a.docs, ref) # {}
       /\ ~HasKey(a.docs[First(Stops(a.docs, ref))], K_r)
    THEN [a EXCEPT !.raised = [raise |-> "KeyError"]]
    ELSE IF Stops(a.docs, ref) # {} THEN a
    ELSE IF Raises(load(Str(ref), st))
    THEN [a EXCEPT !.raised = load(Str(ref), st)]
    ELSE IF load(Str(ref), st) = None
    THEN [a EXCEPT !.docs = Append(@, new(ref)), !.seen_new = TRUE]
    ELSE a

\* the loop over the references, an exception ending it
RECURSIVE Scan(_, _, _)
Scan(a, refs, st) ==
    IF refs = << >> \/ a.raised # None THEN a
    ELSE Scan(ScanRef(a, refs[1], st), Tail(refs), st)

\* one pass of the while loop of edit_docs on the documents the editor
\* gave back
Pass(docs, st) ==
    Scan([docs |-> docs, seen_new |-> FALSE, raised |-> None],
         References(docs), st)

\* '/M/a', '/M/b', '/M/x' and '/Z/b'
R_Ma == <<Slash, 77, Slash, 97>>
R_Mb == <<Slash, 77, Slash, 98>>
R_Mx == <<Slash, 77, Slash, 120>>
R_Zb == <<Slash, 90, Slash, 98>>

\* '.g'
K_g == <<Dot, 103>>

\* what the user does to the text in the editor: nothing; the first
\* document gets '.g' with the value '/M/b', '/M/x', '/Z/b' or both '/M/b'
\* and '/M/x'; every document gets '.g' with '/M/b' twice; the last
\* document gets '.g' with the value '/M/a'; the first document loses its
\* '..r'; the last document is deleted
UserEdits == {"keep", "b", "x", "z", "bx", "bb", "back", "strip", "drop"}

UserEdit(kind, docs) ==
    IF docs = << >> \/ kind = "keep" THEN docs
    ELSE IF kind = "b"
    THEN [docs EXCEPT ![1] = DictPut(@, K_g, Str(R_Mb))]
    ELSE IF kind = "x"
    THEN [docs EXCEPT ![1] = DictPut(@, K_g, Str(R_Mx))]
    ELSE IF kind = "z"
    THEN [docs EXCEPT ![1] = DictPut(@, K_g, Str(R_Zb))]
    ELSE IF kind = "bx"
    THEN [docs EXCEPT ![1] =
             DictPut(@, K_g, [list |-> <<Str(R_Mb), Str(R_Mx)>>])]
    ELSE IF kind = "bb"
    THEN [n \in 1..Len(docs) |->
             DictPut(docs[n], K_g, [list |-> <<Str(R_Mb), Str(R_Mb)>>])]
    ELSE IF kind = "back"
    THEN [docs EXCEPT ![Len(docs)] = DictPut(@, K_g, Str(R_Ma))]
    ELSE IF kind = "strip"
    THEN [docs EXCEPT ![1] = SelectSeq(@, LAMBDA item : item.k # K_r)]
    ELSE SubSeq(docs, 1, Len(docs) - 1)

\* the loop of edit over its references: a reference that load finds is
\* rendered by _value_to_doc(r), which lacks the result argument
\* (TypeError); one that it does not find gets the document of new
RECURSIVE EditDocs(_, _, _)
EditDocs(a, refs, st) ==
    IF refs = << >> \/ a.raised # None THEN a
    ELSE IF Raises(load(Str(refs[1]), st))
    THEN [a EXCEPT !.raised = load(Str(refs[1]), st)]
    ELSE IF load(Str(refs[1]), st) # None
    THEN [a EXCEPT !.raised = [raise |-> "TypeError"]]
    ELSE EditDocs([a EXCEPT !.docs = Append(@, new(refs[1]))], Tail(refs),
                  st)

\* the references edit is called with
RefLists ==
    {<<R_Ma>>, <<R_Mx>>, <<R_Zb>>, <<R_Ma, R_Mb>>, <<R_Ma, R_Mx>>}

\* edit up to edit_docs: the documents of the references
Edit ==
    /\ edit.pc = "idle"
    /\ \E refs \in RefLists :
       \E a \in {EditDocs([docs |-> << >>, raised |-> None], refs, sts)} :
          edit' = [pc |-> IF a.raised = None THEN "editor" ELSE "raised",
                   docs |-> a.docs, given |-> << >>, passes |-> 0,
                   appended |-> 0, raised |-> a.raised, log |-> << >>]
    /\ UNCHANGED <<sts, last, shown, editor, syncvars>>

\* one pass of the while loop of edit_docs: the user edits the text, the
\* documents are read back and scanned
EditPass ==
    /\ edit.pc = "editor"
    /\ edit.passes < MaxPasses
    /\ \E kind \in UserEdits :
       \E given \in {UserEdit(kind, edit.docs)} :
       \E a \in {Pass(given, sts)} :
          edit' = [edit EXCEPT
                      !.pc = IF a.raised # None THEN "raised"
                             ELSE IF a.seen_new THEN "editor"
                             ELSE "converged",
                      !.docs = a.docs,
                      !.given = given,
                      !.passes = @ + 1,
                      !.appended = Len(a.docs) - Len(given),
                      !.raised = a.raised]
    /\ UNCHANGED <<sts, last, shown, editor, syncvars>>

\* docs[::-1]
RECURSIVE Reversed(_)
Reversed(s) ==
    IF s = << >> THEN << >> ELSE Append(Reversed(Tail(s)), s[1])

\* the loop of edit over docs[::-1]: each document committed by
\* update_from_doc, an exception ending it
RECURSIVE Commits(_, _)
Commits(a, docs) ==
    IF docs = << >> \/ a.raised # None THEN a
    ELSE Commits(
             [sts |-> update_from_doc(docs[1], a.sts).sts,
              raised |-> update_from_doc(docs[1], a.sts).raised,
              log |-> Append(a.log,
                         [doc |-> docs[1], before |-> a.sts,
                          tx |-> update_from_doc(docs[1], a.sts).tx,
                          raised |->
                              update_from_doc(docs[1], a.sts).raised])],
             Tail(docs))

\* edit after edit_docs has returned: the commits
EditCommit ==
    /\ edit.pc = "converged"
    /\ \E a \in {Commits([sts |-> sts, raised |-> None, log |-> << >>],
                         Reversed(edit.docs))} :
          /\ sts' = a.sts
          /\ edit' = [edit EXCEPT
                         !.pc = IF a.raised = None THEN "done" ELSE "raised",
                         !.raised = a.raised, !.log = a.log]
    /\ UNCHANGED <<last, shown, editor, syncvars>>

NextEdit == Edit \/ EditPass \/ EditCommit

\* the repositories edit is called on
InitEdit ==
    /\ fs = EmptyDict
    /\ catalog = EmptyDict
    /\ exclude = None
    /\ sts \in {<< >>, OneResource}
    /\ InitRun

SpecEdit == InitEdit /\ [][NextEdit]_vars

-----------------------------------------------------------------------------
(* Properties of the edit loop *)

\* the elements of a sequence
Elements(s) == {s[i] : i \in 1..Len(s)}

\* a pass of the editor has been completed and edit_docs has not returned
\* to the commits yet
PassDone == edit.pc \in {"editor", "converged"} /\ edit.passes >= 1

\* some document of the list declares the reference as its '..r'
Declared(docs, ref) ==
    \E i \in 1..Len(docs) :
        HasKey(docs[i], K_r) /\ Get(docs[i], K_r) = Str(ref)

\* C22: after a completed pass every reference of a non-reserved field
\* that no document of the editor's text declares and that the repository
\* does not resolve has its placeholder among the documents, which are
\* the documents of the text followed by the placeholders of the pass; the
\* loop goes to another pass when the pass has appended a placeholder and
\* ends when it has appended none
C22_EditConvergence ==
    PassDone
    => /\ \A ref \in Elements(References(edit.given)) :
             (~Declared(edit.given, ref) /\ load(Str(ref), sts) = None)
             => new(ref) \in Elements(edit.docs)
       /\ SubSeq(edit.docs, 1, Len(edit.given)) = edit.given
       /\ \A i \in (Len(edit.given) + 1)..Len(edit.docs) :
             \E ref \in Elements(References(edit.given)) :
                edit.docs[i] = new(ref)
       /\ (edit.pc = "editor") <=> (edit.appended >= 1)
       /\ (edit.pc = "converged") <=> (edit.appended = 0)

\* a first pass has appended the placeholder of the missing '/M/b' that a
\* document refers to, and a second pass that left the text as it was has
\* ended the loop
C22_Witness ==
    /\ edit.pc = "converged" /\ edit.passes = 2
    /\ edit.given = edit.docs
    /\ R_Mb \in Elements(References(edit.given))
    /\ ~Declared(<<edit.docs[1]>>, R_Mb)
    /\ new(R_Mb) \in Elements(edit.docs)
    /\ load(Str(R_Mb), sts) = None

\* the documents were committed one after another in the reverse of their
\* final order
ReverseOrder ==
    /\ Len(edit.log) = Len(edit.docs)
    /\ \A n \in 1..Len(edit.log) :
          edit.log[n].doc = edit.docs[Len(edit.docs) + 1 - n]

\* C23: when edit has committed its documents, it has committed them in
\* the reverse of their final order, and at the commit of a document that
\* refers to the '..r' of a placeholder further down the list that
\* reference resolves to a resource
C23_PlaceholderFirst ==
    edit.pc = "done"
    => /\ ReverseOrder
       /\ \A i \in 1..Len(edit.docs) : \A j \in (i + 1)..Len(edit.docs) :
          \A ref \in Elements(References(<<edit.docs[i]>>)) :
             edit.docs[j] = new(ref)
             => /\ ~Raises(load(Str(ref),
                                edit.log[Len(edit.docs) + 1 - i].before))
                /\ load(Str(ref),
                        edit.log[Len(edit.docs) + 1 - i].before) # None

\* the part of C23 that holds: the order of the commits
C23_ReverseOrder == edit.pc = "done" => ReverseOrder

-----------------------------------------------------------------------------
(* The file analysis: action_process_volume and action_process_blobs with  *)
(* FileAnalyzer.process_blob.  What a run does is kept as a list of        *)
(* events: the start of an item, a line printed, an exception caught, the  *)
(* end of the loop.                                                        *)

Ev(ev, what) == [ev |-> ev, what |-> what]

\* the events added to those of a run
Logged(a, events) == [a EXCEPT !.log = @ \o events]

\* what the analysis of a file comes to: a document, a file to ignore, or
\* a MediaFileError (an unknown type, a tool that failed)
Outcomes == {"document", "ignore", "MediaFileError"}

\* FileAnalyzer.analyze(r, path, context, preview_path=None) called with
\* nargs positional arguments: TypeError without the three it needs
analyze(nargs, c, r, outcome, st) ==
    IF nargs < 3 \/ nargs > 4
    THEN [c EXCEPT !.raised = [raise |-> "TypeError"]]
    ELSE IF outcome = "MediaFileError"
    THEN [c EXCEPT !.raised = [raise |-> "MediaFileError"]]
    ELSE IF outcome = "document"
    THEN ensure(c, r, Lookup(S_fileType), Lookup(S_DocumentFile), st)
    ELSE c

\* the statements action_process_volume puts in its transaction for a
\* record before the analysis
VolumeResource(c, remote, st) ==
    ensure(add(c, None, Lookup(S_type), Lookup(S_Resource)).c,
           add(c, None, Lookup(S_type), Lookup(S_Resource)).st,
           Lookup(S_fileContent), Blob(remote.sha256), st)

\* the body of the loop of action_process_volume: analyze is called with
\* (path, preview_path), and a bare except goes on to the next record
VolumePass(a, n, remote, st) ==
    IF analyze(2, VolumeResource(a.c, remote, st), None, "ignore",
               st).raised # None
    THEN [c |-> VolumeResource(a.c, remote, st),
          log |-> a.log
                  \o <<Ev("item", n), Ev("print", remote.path),
                       Ev("caught",
                          analyze(2, VolumeResource(a.c, remote, st), None,
                                  "ignore", st).raised)>>,
          raised |-> None]
    ELSE \* info.items() of the None that analyze returns
         [c |-> VolumeResource(a.c, remote, st),
          log |-> a.log \o <<Ev("item", n), Ev("print", remote.path)>>,
          raised |-> [raise |-> "AttributeError"]]

\* the loop of action_process_volume over the records of the catalog
RECURSIVE VolumeLoop(_, _, _, _)
VolumeLoop(a, n, remotes, st) ==
    IF remotes = << >> \/ a.raised # None THEN a
    ELSE VolumeLoop(VolumePass(a, n, remotes[1], st), n + 1, Tail(remotes),
                    st)

\* the records the ApiFileIterator yields: those of the catalog, ascending
Remotes(cat) ==
    [i \in 1..Cardinality(DOMAIN cat) |-> cat[SortedPaths(DOMAIN cat)[i]]]

\* action_process_volume: after the loop it shows the transaction, prints
\* "THE END" and returns before the submit
ProcessVolume ==
    /\ pc = "idle"
    /\ \E a \in {VolumeLoop([c |-> NewTransaction(sts), log |-> << >>,
                             raised |-> None],
                            0, Remotes(catalog), sts)} :
          /\ last' = [op |-> "process_volume",
                      log |-> IF a.raised = None
                              THEN a.log \o <<Ev("end", 0),
                                              Ev("print", "THE END")>>
                              ELSE a.log,
                      tx |-> a.c.tx, raised |-> a.raised, before |-> sts]
          /\ pc' = IF a.raised = None THEN "done" ELSE "raised"
          /\ error' = a.raised
    /\ UNCHANGED <<fs, exclude, catalog, clock, stack, results, idx, limit,
                   left, right, cur_left, cur_right, batch, run, emitted,
                   produced, walked, fetched, calls, printed, ended, sts,
                   shown, edit, editor>>

\* the blobs of the query of action_process_blobs: those that are the
\* fileContent of a resource, each once
RECURSIVE Distinct(_)
Distinct(s) ==
    IF s = << >> THEN << >>
    ELSE <<s[1]>> \o Distinct(SelectSeq(Tail(s), LAMBDA x : x # s[1]))

BlobsOf(st) ==
    Distinct([n \in 1..Cardinality(find(st, None, Lookup(S_fileContent),
                                        None)) |->
                 st[Ascending(find(st, None, Lookup(S_fileContent),
                                   None))[n]].o])

\* _process_blob's search: the paths of the files of the blob that exist
ValidPaths(blob) ==
    {q \in DOMAIN catalog \cap DOMAIN fs : catalog[q].sha256 = blob.sha256}

\* the four ensure calls of process_blob
BlobEnsured(c, r, blob, path, st) ==
    ensure(
        ensure(
            ensure(
                ensure(c, r, Lookup(S_type), Lookup(S_ComputerFile), st),
                r, Lookup(S_fileContent), blob, st),
            r, Lookup(S_fileSize), [int |-> fs[path].st_size], st),
        r, Lookup(S_label), Str(Name(path)), st)

\* the end of process_blob: the analysis when it is needed, a
\* MediaFileError being caught and reported
Analysis(a, c, r, path, need_analysis, outcome, st) ==
    IF ~need_analysis THEN [a EXCEPT !.c = c]
    ELSE IF analyze(3, c, r, outcome, st).raised = None
    THEN [c |-> analyze(3, c, r, outcome, st),
          log |-> a.log \o <<Ev("print", "Analyze")>>,
          raised |-> None]
    ELSE [c |-> c,
          log |-> a.log
                  \o <<Ev("print", "Analyze"),
                       Ev("caught", analyze(3, c, r, outcome, st).raised),
                       Ev("print", "There was an error, ignoring file")>>,
          raised |-> None]

\* FileAnalyzer.process_blob
process_blob(a, blob, path, outcome, st) ==
    IF Cardinality(find(st, None, Lookup(S_fileContent), blob)) > 1
    THEN Logged(a, <<Ev("print", "Multiple resources for single Blob!"),
                     Ev("print", "resources")>>)
    ELSE IF find(st, None, Lookup(S_fileContent), blob) = {}
    THEN Analysis(a,
             BlobEnsured(add(a.c, None, Lookup(S_type),
                             Lookup(S_Resource)).c,
                         add(a.c, None, Lookup(S_type),
                             Lookup(S_Resource)).st,
                         blob, path, st),
             add(a.c, None, Lookup(S_type), Lookup(S_Resource)).st,
             path, TRUE, outcome, st)
    ELSE Analysis(a,
             BlobEnsured(a.c,
                 st[First(find(st, None, Lookup(S_fileContent), blob))].s,
                 blob, path, st),
             st[First(find(st, None, Lookup(S_fileContent), blob))].s,
             path,
             find(st,
                  st[First(find(st, None, Lookup(S_fileContent), blob))].s,
                  Lookup(S_fileType), None) = {},
             outcome, st)

\* QueryDuckCLI._process_blob: the first file of the blob that exists goes
\* to process_blob
_process_blob(a, blob, outcome, st) ==
    IF ValidPaths(blob) = {}
    THEN Logged(a, <<Ev("print", "No valid file found!")>>)
    ELSE process_blob(a, blob, SortedPaths(ValidPaths(blob))[1], outcome,
                      st)

\* the loop of action_process_blobs over the results
RECURSIVE BlobLoop(_, _, _, _, _)
BlobLoop(a, n, blobs, outcomes, st) ==
    IF n > Len(blobs) THEN a
    ELSE BlobLoop(_process_blob(Logged(a, <<Ev("item", n)>>), blobs[n],
                                outcomes[n], st),
                  n + 1, blobs, outcomes, st)

\* action_process_blobs, the results being fewer than the limit of a
\* query: the blobs are processed, the transaction is shown and submitted
ProcessBlobs ==
    /\ pc = "idle"
    /\ \E outcomes \in [1..Len(BlobsOf(sts)) -> Outcomes] :
       \E a \in {BlobLoop([c |-> NewTransaction(sts), log |-> << >>,
                           raised |-> None],
                          1, BlobsOf(sts), outcomes, sts)} :
          /\ last' = [op |-> "process_blobs",
                      log |-> a.log \o <<Ev("end", 0),
                                         Ev("print", "transaction")>>,
                      tx |-> a.c.tx, raised |-> None, before |-> sts]
          /\ sts' = submit(sts, a.c.tx)
          /\ pc' = "done"
          /\ error' = None
    /\ UNCHANGED <<fs, exclude, catalog, clock, stack, results, idx, limit,
                   left, right, cur_left, cur_right, batch, run, emitted,
                   produced, walked, fetched, calls, printed, ended, shown,
                   edit, editor>>

NextAnalyze == ProcessVolume \/ ProcessBlobs

\* a resource with the blob of the given content as its fileContent
BlobResource(i, content) ==
    <<Triple(StRef(i), Lookup(S_type), Lookup(S_Resource)),
      Triple(StRef(i), Lookup(S_fileContent), Blob(sha256_b64(content)))>>

\* the repositories of the file analysis: no resource; one resource of the
\* blob of the files; two resources of that blob; a resource of it and one
\* of another blob; a resource of it that has a fileType
BlobStores ==
    {<< >>, BlobResource(1, 1), BlobResource(1, 1) \o BlobResource(3, 1),
     BlobResource(1, 1) \o BlobResource(3, 2),
     BlobResource(1, 1)
     \o <<Triple(StRef(1), Lookup(S_fileType), Lookup(S_DocumentFile))>>}

\* a volume whose files 'a' and 'b' are absent, tracked, or tracked and
\* deleted, and a repository
InitAnalyze ==
    /\ \E kindOf \in [FileNames -> {"none", "same", "deleted"}] :
          /\ fs = [q \in {n \in FileNames : HasLocal(kindOf[n])} |->
                      LocalOf(kindOf[q])]
          /\ catalog = [q \in {n \in FileNames : HasRemote(kindOf[n])} |->
                           RemoteOf(q, kindOf[q])]
    /\ exclude = None
    /\ sts \in BlobStores
    /\ InitRun

SpecAnalyze == InitAnalyze /\ [][NextAnalyze]_vars

\* C29: in a run of the file analysis every exception that is caught for
\* the run to go on is followed by a printed line before the next item
\* starts or the loop ends
C29_NeverSilent ==
    last.op \in {"process_volume", "process_blobs"}
    => \A i \in 1..Len(last.log) :
          last.log[i].ev = "caught"
          => i < Len(last.log) /\ last.log[i + 1].ev = "print"

\* the part of C29 that holds: the MediaFileError that process_blob catches
C29_ProcessBlob ==
    last.op = "process_blobs"
    => \A i \in 1..Len(last.log) :
          last.log[i].ev = "caught"
          => i < Len(last.log) /\ last.log[i + 1].ev = "print"

-----------------------------------------------------------------------------
(* Properties of the content reference *)

\* the last call was get_blob_by_path on a file inside the volume
FileInVolume ==
    /\ last.op = "get_blob_by_path"
    /\ ~Raises(_process_path(last.paths[1]))

\* the requests of the run that mutate the catalog
MutateCalls == {i \in 1..Len(calls) : calls[i].op = "mutate"}

\* C31: get_blob_by_path on a file inside the volume returns the blob whose
\* digest is the fingerprint of the file, after at most one mutation, which
\* holds that path only
C31_ContentReference ==
    FileInVolume
    => /\ last.raised = None
       /\ last.result = Blob(sha256_b64(fs[last.paths[1].rel].content))
       /\ Cardinality(MutateCalls) <= 1
       /\ \A i \in MutateCalls :
             DOMAIN calls[i].files \subseteq {last.paths[1].rel}

\* the part of C31 that holds: a directory or a path outside every volume
\* ends with UserError, and no call of get_blob_by_path sends a request or
\* changes the catalog
C31_NoRequest ==
    last.op = "get_blob_by_path"
    => /\ calls = << >> /\ catalog = last.catalog
       /\ Raises(_process_path(last.paths[1]))
          => last.raised = _process_path(last.paths[1])

-----------------------------------------------------------------------------
(* Properties of the order of the batches *)

\* every pair of key q was emitted before every pair of key r, and both
\* were emitted
EmittedBefore(q, r) ==
    /\ PairsOf(q) # {} /\ PairsOf(r) # {}
    /\ \A a \in PairsOf(q) : \A b \in PairsOf(r) : a < b

\* C32: of two batches submitted in one update_volume run, every path of
\* the earlier one precedes every path of the later one, in the order of
\* the keys and in the order the pairs were emitted, so that no path is in
\* two batches
C32_FlushOrder ==
    \A i \in Mutations : \A k \in Mutations :
       i < k
       => \A q \in DOMAIN calls[i].files : \A r \in DOMAIN calls[k].files :
             StrLess(q, r) /\ EmittedBefore(q, r)

\* a full batch was submitted inside the loop and a later request holds
\* further paths
C32_Witness ==
    \E i \in Mutations : \E k \in Mutations :
       /\ i < k
       /\ Cardinality(DOMAIN calls[i].files) = LoopTreshold
       /\ DOMAIN calls[k].files # {}

-----------------------------------------------------------------------------
(* Properties of the commits of an edit set *)

\* the statements the commits of the edit have added, commit by commit
CommitTriples ==
    IF edit.pc \in {"done", "raised"}
    THEN UNION {Elements(edit.log[n].tx) : n \in 1..Len(edit.log)}
    ELSE {}

\* C33: no commit of an edit set adds a statement whose predicate or object
\* is None, the value of a reference that does not resolve
C33_NoUnresolved ==
    \A t \in CommitTriples : t.p # None /\ t.o # None

-----------------------------------------------------------------------------
(* Properties of the commit of a rendered document *)

\* the last commit was of a document as _value_to_doc rendered it for a
\* statement of the repository
Unedited ==
    /\ last.op = "update"
    /\ "from" \in DOMAIN last /\ last.from = "doc"

\* C34: committing a document exactly as _value_to_doc rendered it for an
\* existing subject raises nothing and adds no statement
C34_UneditedNoOp ==
    Unedited => last.raised = None /\ last.tx = << >> /\ sts = last.before

\* the part of C34 that holds: a rendered document without an inverse
\* relation, whose subject the '..s' of the document names, adds nothing
C34_ForwardOnly ==
    (Unedited /\ find(last.before, None, None, last.read) = {})
    => last.raised = None /\ last.tx = << >> /\ sts = last.before

-----------------------------------------------------------------------------
(* Properties of the identifiers of a document *)

\* the value _make_identifier_lazy was called with last is one the mapper
\* writes as a value: a binding, a statement, a str or an int
Written ==
    /\ shown.op = "identify"
    /\ \/ IsStatement(shown.value)
       \/ IsStr(shown.value)
       \/ IsInt(shown.value)

\* C35: the identifier _make_identifier_lazy writes for a binding, a
\* statement, a str or an int is read back by _parse_identifier as the
\* value it was written for
C35_IdentifierRoundTrip ==
    Written
    => /\ ~Raises(shown.result)
       /\ _parse_identifier(shown.result, sts) = shown.value

\* the part of C35 that holds: bindings, ints, and statements written in
\* their serialized form come back
C35_Plain ==
    (/\ Written
     /\ \/ reverse_exists(shown.value)
        \/ IsInt(shown.value)
        \/ IsStatement(shown.value) /\ shown.result = serialize(shown.value))
    => _parse_identifier(shown.result, sts) = shown.value

\* a str comes back unless it starts with the binding marker or with '/'
\* or holds a ':'
C35_PlainStr ==
    (/\ Written /\ IsStr(shown.value)
     /\ ~startswith(shown.value.str, <<Dot>>)
     /\ ~startswith(shown.value.str, <<Slash>>)
     /\ ~Contains(shown.value.str, Colon))
    => _parse_identifier(shown.result, sts) = shown.value

-----------------------------------------------------------------------------
(* StorageProcessor._update_files on the files of several volumes.  Here   *)
(* fs is keyed by the real path of a file and catalog[name] is the catalog *)
(* of the volume of that name, keyed by the path relative to its root.     *)

\* self.volumes, in the order of the configuration: 'n' at v/n inside the
\* volume 'v' at v, and 'w' at w
Volumes ==
    <<[name |-> "n", path |-> <<118, Slash, 110>>],
      [name |-> "v", path |-> <<118>>],
      [name |-> "w", path |-> <<119>>]>>

\* Volume.contains: self.path in path.parents
contains(volume, real) == startswith(real, volume.path \o <<Slash>>)

\* real.relative_to(path): ValueError for a path that is not below it
relative_to(real, path) ==
    IF startswith(real, path \o <<Slash>>)
    THEN [str |-> From(real, Len(path) + 1)]
    ELSE [raise |-> "ValueError"]

\* the first volume of the configuration that contains the path
VolumeOf(real) ==
    Volumes[CHOOSE i \in 1..Len(Volumes) :
               /\ contains(Volumes[i], real)
               /\ \A j \in 1..(i - 1) : ~contains(Volumes[j], real)]

\* File(real, volume) as _process_path makes it for a file of a volume
VolumeFile(real) ==
    [real |-> real, volume |-> VolumeOf(real),
     relative |-> relative_to(real, VolumeOf(real).path).str,
     file |-> None]

\* api.find_files(volume.name, [f.relative for f in files])
FindFiles(cat, files) ==
    [q \in {files[i].relative : i \in 1..Len(files)} \cap DOMAIN cat
        |-> cat[q]]

\* _update_file_status(volume.path, f.real, api_file) for a local file: the
\* path of the batch entry is str(local.relative_to(root))
StatusIn(volume, f, remote, clk) ==
    IF \/ remote = None
       \/ fs[f.real].st_size # remote.size
       \/ fromtimestamp(fs[f.real].st_mtime) # fromisoformat(remote.mtime)
    THEN IF Raises(relative_to(f.real, volume.path))
         THEN relative_to(f.real, volume.path)
         ELSE [k |-> relative_to(f.real, volume.path),
               v |-> _process_file(PathObj(f.real), clk).file_info]
    ELSE [k |-> None, v |-> remote]

\* one pass of the loop of _update_volume_files, st being what
\* _update_file_status has returned or raised
VolumeStatus(acc, f, st) ==
    IF Raises(st) THEN [acc EXCEPT !.raised = st]
    ELSE [acc EXCEPT
             !.files = Append(@, [f EXCEPT !.file = st.v]),
             !.batch = IF Truthy(st.k) THEN DictSet(@, st.k.str, st.v)
                       ELSE @]

\* the loop of _update_volume_files over the files it is given
RECURSIVE VolumeStatuses(_, _, _, _, _)
VolumeStatuses(acc, volume, files, api_files, clk) ==
    IF files = << >> \/ acc.raised # None THEN acc
    ELSE VolumeStatuses(
             VolumeStatus(acc, files[1],
                 StatusIn(volume, files[1],
                          ApiFile(api_files, files[1].relative), clk)),
             volume, Tail(files), api_files, clk)

\* what _update_volume_files(volume, files) leaves: the files with their
\* records, the requests, the catalog of the volume
VolumeUpdated(volume, l, h) ==
    [files |-> l.files,
     reqs |-> <<[op |-> "find", volume |-> volume.name,
                 paths |-> {l.given[i].relative : i \in 1..Len(l.given)}]>>
              \o IF l.raised # None THEN << >>
                 ELSE [i \in 1..Len(h.reqs) |->
                          [op |-> "mutate", volume |-> volume.name,
                           files |-> h.reqs[i].files,
                           status |-> h.reqs[i].status]],
     cat |-> IF l.raised # None THEN l.cat ELSE h.cat,
     raised |-> IF l.raised # None THEN l.raised ELSE h.raised]

\* _update_volume_files(volume, files)
UpdateVolumeFiles(volume, files, cat, clk, status) ==
    VolumeUpdated(volume,
        VolumeStatuses([files |-> << >>, batch |-> EmptyDict,
                        raised |-> None, given |-> files, cat |-> cat],
                       volume, files, FindFiles(cat, files), clk),
        _handle_file_batch(
            VolumeStatuses([files |-> << >>, batch |-> EmptyDict,
                            raised |-> None, given |-> files, cat |-> cat],
                           volume, files, FindFiles(cat, files), clk).batch,
            FinalTreshold, status, cat))

\* the body of the loop of _update_files: volume_files is computed, and
\* _update_volume_files(volume, files) is called with all the files
UpdatePass(a, volume, clk, status) ==
    [files |-> IF UpdateVolumeFiles(volume, a.files, a.cats[volume.name],
                                    clk, status).raised # None
               THEN a.files
               ELSE UpdateVolumeFiles(volume, a.files, a.cats[volume.name],
                                      clk, status).files,
     cats |-> [a.cats EXCEPT ![volume.name] =
                  UpdateVolumeFiles(volume, a.files, a.cats[volume.name],
                                    clk, status).cat],
     reqs |-> a.reqs
              \o UpdateVolumeFiles(volume, a.files, a.cats[volume.name],
                                   clk, status).reqs,
     raised |-> UpdateVolumeFiles(volume, a.files, a.cats[volume.name],
                                  clk, status).raised]

\* the loop of _update_files over the volumes, in the order the set gives
RECURSIVE UpdatePasses(_, _, _, _)
UpdatePasses(a, order, clk, status) ==
    IF order = << >> \/ a.raised # None THEN a
    ELSE UpdatePasses(UpdatePass(a, order[1], clk, status), Tail(order),
                      clk, status)

\* the orders a set of volumes may be iterated in
Orders(S) ==
    {o \in [1..Cardinality(S) -> S] :
        \A i \in 1..Cardinality(S) : \A j \in 1..Cardinality(S) :
            i # j => o[i] # o[j]}

\* the files of the volumes: v/n/a of 'n', v/a of 'v', w/a of 'w'
Reals ==
    {<<118, Slash, 110, Slash, 97>>, <<118, Slash, 97>>,
     <<119, Slash, 97>>}

\* how many files _update_files is given
MaxFiles == 2

\* the lists of files _update_files is given: distinct files of the volumes
FileLists ==
    {l \in UNION {[1..n -> Reals] : n \in 1..MaxFiles} :
        \A i \in 1..Len(l) : \A j \in 1..Len(l) : i # j => l[i] # l[j]}

\* the content of a file, which differs from file to file
ContentOf(real) == Len(real) + real[1]

\* the volumes: every file is new or tracked by its own volume, with the
\* size and the time the catalog holds
InitVolumes ==
    /\ \E tracked \in SUBSET Reals :
          /\ fs = [q \in Reals |-> File(1, OldMtime, TRUE, ContentOf(q))]
          /\ catalog =
                [name \in {Volumes[i].name : i \in 1..Len(Volumes)} |->
                    [q \in {VolumeFile(r).relative :
                               r \in {t \in tracked :
                                         VolumeOf(t).name = name}} |->
                        Tracked(q, 1, OldMtime,
                                ContentOf((CHOOSE r \in tracked :
                                    /\ VolumeOf(r).name = name
                                    /\ VolumeFile(r).relative = q)), 0)]]
    /\ exclude = None
    /\ sts = << >>
    /\ InitRun

\* _update_files(files)
UpdateFiles ==
    /\ pc = "idle"
    /\ \E l \in FileLists :
       \E order \in Orders({VolumeOf(l[i]) : i \in 1..Len(l)}) :
       \E status \in Statuses :
       \E a \in {UpdatePasses(
                    [files |-> [i \in 1..Len(l) |-> VolumeFile(l[i])],
                     cats |-> catalog, reqs |-> << >>, raised |-> None],
                    order, clock, status)} :
          /\ catalog' = a.cats
          /\ calls' = a.reqs
          /\ pc' = IF a.raised = None THEN "done" ELSE "raised"
          /\ error' = a.raised
          /\ last' = [op |-> "update_files",
                      given |-> [i \in 1..Len(l) |-> VolumeFile(l[i])],
                      order |-> order, files |-> a.files,
                      catalog |-> catalog, raised |-> a.raised]
          /\ clock' = clock + 1
          /\ run' = run + 1
    /\ UNCHANGED <<fs, exclude, sts, printed, stack, results, idx, limit,
                   left, right, cur_left, cur_right, batch, emitted,
                   produced, walked, fetched, ended, shown, edit, editor>>

NextVolumes == UpdateFiles

SpecVolumes == InitVolumes /\ [][NextVolumes]_vars

(* Properties of _update_files *)

\* the paths, relative to the volume of that name, of the files given that
\* belong to it
OwnPaths(name) ==
    {last.given[i].relative :
        i \in {j \in 1..Len(last.given) : last.given[j].volume.name = name}}

\* the mutate requests of the call that hold the record of the file f: the
\* entry of a request to a volume is the file of that path below its root
MutationsOf(f) ==
    {i \in MutateCalls :
        \E q \in DOMAIN calls[i].files : \E n \in 1..Len(Volumes) :
            /\ Volumes[n].name = calls[i].volume
            /\ Volumes[n].path \o <<Slash>> \o q = f.real}

\* C36: _update_files asks each volume for, and submits to it, only paths
\* of the files given that belong to that volume, and the record of a file
\* is submitted at most once and to its own volume
C36_OwnVolumeOnly ==
    last.op = "update_files"
    => /\ \A i \in 1..Len(calls) :
             IF calls[i].op = "find"
             THEN calls[i].paths \subseteq OwnPaths(calls[i].volume)
             ELSE DOMAIN calls[i].files \subseteq OwnPaths(calls[i].volume)
       /\ \A n \in 1..Len(last.given) :
             /\ Cardinality(MutationsOf(last.given[n])) <= 1
             /\ \A i \in MutationsOf(last.given[n]) :
                   calls[i].volume = last.given[n].volume.name

\* the part of C36 that holds: files that all belong to one volume
C36_OneVolume ==
    (/\ last.op = "update_files"
     /\ \A n \in 1..Len(last.given) :
           last.given[n].volume = last.given[1].volume)
    => /\ \A i \in 1..Len(calls) :
             IF calls[i].op = "find"
             THEN calls[i].paths \subseteq OwnPaths(calls[i].volume)
             ELSE DOMAIN calls[i].files \subseteq OwnPaths(calls[i].volume)
       /\ \A n \in 1..Len(last.given) :
             /\ Cardinality(MutationsOf(last.given[n])) <= 1
             /\ \A i \in MutationsOf(last.given[n]) :
                   calls[i].volume = last.given[n].volume.name

-----------------------------------------------------------------------------
(* Properties of the placeholders of a pass *)

\* the places of the documents the last pass has appended
AppendedPlaces == (Len(edit.given) + 1)..Len(edit.docs)

\* how many times the documents of the text refer to ref
TimesReferenced(ref) ==
    Cardinality({n \in 1..Len(References(edit.given)) :
                    References(edit.given)[n] = ref})

\* C37: the placeholders one pass of edit_docs appends are of pairwise
\* different identifiers, however often an identifier is referred to, and
\* no placeholder holds a reference itself
C37_OnePlaceholder ==
    PassDone
    => /\ \A i \in AppendedPlaces : \A j \in AppendedPlaces :
             i # j => Get(edit.docs[i], K_r) # Get(edit.docs[j], K_r)
       /\ \A i \in AppendedPlaces : References(<<edit.docs[i]>>) = << >>

\* two documents refer to the missing '/M/b' twice each, and the pass has
\* appended the one placeholder of '/M/b'
C37_Witness ==
    /\ PassDone /\ edit.passes = 1
    /\ Len(edit.given) = 2
    /\ TimesReferenced(R_Mb) = 4
    /\ edit.appended = 1
    /\ edit.docs[Len(edit.docs)] = new(R_Mb)

-----------------------------------------------------------------------------
(* Properties of the temporary file of call_text_editor *)

\* C38: however call_text_editor ends, by its return or by an exception,
\* the temporary file is gone, and what it returns is the content the file
\* had after the last invocation of the editor
C38_NoTempFileLeft ==
    editor.pc \in {"returned", "raised"}
    => /\ ~editor.tmp
       /\ editor.pc = "returned" => editor.result = editor.text

\* the part of C38 that holds: a call that returns has run the editor,
\* returns the content of the file after the last invocation and has
\* unlinked the file
C38_Returned ==
    editor.pc = "returned"
    => /\ ~editor.tmp
       /\ Invocations(editor.log) # {}
       /\ editor.result
          = editor.log[CHOOSE i \in Invocations(editor.log) :
                          \A j \in Invocations(editor.log) : j <= i].text

-----------------------------------------------------------------------------
(* action_import.  A file is the number of its lines and the place of a    *)
(* line that is no JSON (0: none); the value json.loads gives for line k   *)
(* is [quad |-> k].  The list quads holds the values of consecutive lines, *)
(* so it is kept as the places lo..hi of those lines.                      *)

\* the size at which the list is submitted
ImportBatch == 10000

\* the longest file
MaxLines == 20001

\* the lengths of the files: none, one line, and the lengths around one and
\* two full lists
FileLengths ==
    {0, 1, ImportBatch - 1, ImportBatch, ImportBatch + 1, 2 * ImportBatch,
     MaxLines}

\* the files: all lines JSON, or one that is not: the first, the last, or
\* the one after the first full list
ImportFiles ==
    {[lines |-> n, bad |-> k] :
        n \in FileLengths, k \in {0, 1, ImportBatch + 1, MaxLines}}
    \cap [lines : FileLengths, bad : 0..MaxLines]

\* json.loads(line) for line k of the file
loads(file, k) ==
    IF k = file.bad THEN [raise |-> "JSONDecodeError"] ELSE [quad |-> k]

\* len(quads)
len(quads) == quads.hi - quads.lo + 1

\* quads = [] before line k is read
NoQuads(k) == [lo |-> k, hi |-> k - 1]

\* the list is submitted only when it is longer than the size
Full_gt(quads) == len(quads) > ImportBatch

\* len(quads) >= 10000
Full(quads) == len(quads) >= ImportBatch

\* repo.import_statements(quads), answered with the given status
import_statements(quads, status) ==
    [op |-> "import_statements", quads |-> quads, status |-> status]

\* action_import up to the loop: the file is opened, quads = []
ActionImport ==
    /\ pc = "idle"
    /\ \E file \in ImportFiles :
          last' = [op |-> "import", file |-> file, i |-> 0,
                   quads |-> NoQuads(1)]
    /\ pc' = "import"
    /\ calls' = << >>
    /\ UNCHANGED <<fs, exclude, catalog, clock, stack, results, idx, limit,
                   left, right, cur_left, cur_right, batch, error, run,
                   emitted, produced, walked, fetched, printed, ended, sts,
                   shown, edit, editor>>

\* one pass of the loop over the lines: the line is parsed and appended,
\* and a list that is full is submitted and emptied
ImportLine ==
    /\ pc = "import"
    /\ last.i < last.file.lines
    /\ IF Raises(loads(last.file, last.i + 1))
       THEN /\ pc' = "raised"
            /\ error' = loads(last.file, last.i + 1)
            /\ last' = [last EXCEPT !.i = @ + 1]
            /\ UNCHANGED calls
       ELSE IF Full([last.quads EXCEPT !.hi = @ + 1])
       THEN \E status \in Statuses :
               /\ calls' = Append(calls,
                     import_statements([last.quads EXCEPT !.hi = @ + 1],
                                       status))
               /\ pc' = IF _raise_from_request(status) = None THEN "import"
                        ELSE "raised"
               /\ error' = _raise_from_request(status)
               /\ last' = [last EXCEPT
                              !.i = @ + 1,
                              !.quads = IF _raise_from_request(status) = None
                                        THEN NoQuads(last.i + 2)
                                        ELSE [@ EXCEPT !.hi = @ + 1]]
       ELSE /\ last' = [last EXCEPT !.i = @ + 1, !.quads.hi = @ + 1]
            /\ UNCHANGED <<pc, error, calls>>
    /\ UNCHANGED <<fs, exclude, catalog, clock, stack, results, idx, limit,
                   left, right, cur_left, cur_right, batch, run, emitted,
                   produced, walked, fetched, printed, ended, sts, shown,
                   edit, editor>>

\* after the loop: what is left of the list is submitted when it is not
\* empty, and action_import returns
ImportEnd ==
    /\ pc = "import"
    /\ last.i = last.file.lines
    /\ IF len(last.quads) > 0
       THEN \E status \in Statuses :
               /\ calls' = Append(calls,
                                  import_statements(last.quads, status))
               /\ pc' = IF _raise_from_request(status) = None THEN "done"
                        ELSE "raised"
               /\ error' = _raise_from_request(status)
       ELSE /\ pc' = "done"
            /\ UNCHANGED <<calls, error>>
    /\ UNCHANGED <<fs, exclude, catalog, clock, stack, results, idx, limit,
                   left, right, cur_left, cur_right, batch, run, emitted,
                   produced, walked, fetched, printed, ended, sts, last,
                   shown, edit, editor>>

NextImport == ActionImport \/ ImportLine \/ ImportEnd

SpecImport == InitPlain /\ [][NextImport]_vars

(* Properties of action_import *)

\* the lists submitted hold from 1 to ImportBatch values and follow each
\* other in the order of the file, the first starting at the first line and
\* each at the line after the end of the one before
InFileOrder ==
    /\ \A n \in 1..Len(calls) :
          len(calls[n].quads) >= 1 /\ len(calls[n].quads) <= ImportBatch
    /\ \A n \in 1..Len(calls) :
          calls[n].quads.lo = IF n = 1 THEN 1 ELSE calls[n - 1].quads.hi + 1

\* the lists submitted, one after the other, are all the lines of the file
AllSubmitted ==
    IF calls = << >> THEN last.file.lines = 0
    ELSE calls[Len(calls)].quads.hi = last.file.lines

\* the statement that whenever action_import has ended, the lists it has
\* submitted are in file order, of 1 to ImportBatch values, and together
\* all the lines of the file
C39_ImportAll ==
    last.op = "import"
    => /\ InFileOrder
       /\ pc \in {"done", "raised"} => AllSubmitted

\* C39: action_import submits lists of 1 to ImportBatch values in the
\* order of the file; when it returns they are together all the lines of
\* the file, and when it ends with an exception (a line that is no JSON, a
\* submission that fails) they are the lines before the one it has read
\* last
C39_ImportBatches ==
    last.op = "import"
    => /\ InFileOrder
       /\ pc = "done" => AllSubmitted
       /\ \A n \in 1..Len(calls) : calls[n].quads.hi <= last.i
       /\ pc = "raised"
          => \/ /\ Raises(loads(last.file, last.i))
                /\ calls # << >>
                   => /\ calls[Len(calls)].status = 200
                      /\ calls[Len(calls)].quads.hi < last.i
             \/ /\ calls # << >>
                /\ calls[Len(calls)].status # 200

\* the file of MaxLines lines has been imported: two full lists and the
\* list of what is left
C39_Witness ==
    /\ last.op = "import" /\ pc = "done"
    /\ last.file.lines = MaxLines
    /\ Len(calls) = 3
    /\ len(calls[1].quads) = ImportBatch
    /\ len(calls[2].quads) = ImportBatch
    /\ calls[3].quads.hi = MaxLines

-----------------------------------------------------------------------------
(* docs_to_transaction.  A document is a sequence of items [k, v] as       *)
(* before; the transaction is the record c of update_resource.  The names  *)
(* FetchObject and MatchObject are used but not imported by the module.    *)

\* the most documents handed over
MaxDocs == 2

\* 'y', the answer that submits
S_y == <<121>>

\* what input() gives at the prompt 'Submit y/n? [n] ': 'y', 'n', '', 'Y',
\* 'yes', or EOFError when the input is closed
Replies ==
    {[answer |-> a] : a \in {S_y, <<110>>, << >>, <<89>>, <<121, 101, 115>>}}
    \cup {[raise |-> "EOFError"]}

\* the documents: a path of a bound and of an unbound type, a serialized
\* statement, no item at all, a label, a bound name as an object, a list of
\* two objects, and a key without a binding
TransactionDocs ==
    {<<[k |-> <<Slash>>, v |-> Str(<<Slash, 77, Slash, 97>>)]>>,
     <<[k |-> <<Slash>>, v |-> Str(<<Slash, 113, Slash, 97>>)]>>,
     <<[k |-> <<Equals>>, v |-> Str(<<115, Colon, 65>>)],
       [k |-> S_label, v |-> Str(<<97>>)]>>,
     << >>,
     <<[k |-> S_label, v |-> Str(<<120>>)]>>,
     <<[k |-> <<103>>, v |-> Str(<<77>>)]>>,
     <<[k |-> <<103>>, v |-> [list |-> <<Str(<<97>>), Str(<<97>>)>>]]>>,
     <<[k |-> <<122>>, v |-> Str(<<97>>)]>>}

\* the lists of documents
DocLists == UNION {[1..n -> TransactionDocs] : n \in 0..MaxDocs}

\* transaction.ensure(resource, p, o) with coll None, o being a value or
\* the exception of its lookup
Ensure(c, resource, p, o, st) ==
    IF c.raised # None THEN c
    ELSE IF Raises(o) THEN [c EXCEPT !.raised = o]
    ELSE ensure(c, resource, p, o, st)

\* for type_ in types: transaction.ensure(resource, b.type, b[type_])
RECURSIVE EnsureTypes(_, _, _, _)
EnsureTypes(c, resource, types, st) ==
    IF types = << >> THEN c
    ELSE EnsureTypes(Ensure(c, resource, Lookup(S_type), Lookup(Head(types)),
                            st),
                     resource, Tail(types), st)

\* the key '/': dummy, *types, label = v.split('/'), the types and then
\* the label are ensured
EnsurePath(c, resource, v, st) ==
    IF Len(split(v, Slash)) < 2
    THEN [c EXCEPT !.raised = [raise |-> "ValueError"]]
    ELSE Ensure(EnsureTypes(c, resource,
                    SubSeq(split(v, Slash), 2, Len(split(v, Slash)) - 1), st),
                resource, Lookup(S_label),
                Str(split(v, Slash)[Len(split(v, Slash))]), st)

\* obj: b[ser_obj] if ser_obj in b, else repo.unique_deserialize(ser_obj)
TransactionObject(ser_obj) ==
    IF ~Raises(Lookup(ser_obj.str)) THEN Lookup(ser_obj.str)
    ELSE unique_deserialize(ser_obj.str)

\* for ser_obj in v: transaction.ensure(resource, prd, obj)
RECURSIVE EnsureObjects(_, _, _, _, _)
EnsureObjects(c, resource, prd, v, st) ==
    IF v = << >> \/ c.raised # None THEN c
    ELSE EnsureObjects(
             Ensure(c, resource, prd, TransactionObject(Head(v)), st),
             resource, prd, Tail(v), st)

\* one pass of the loop over doc.items()
DocItem(c, resource, item, st) ==
    IF c.raised # None \/ item.k = <<Equals>> THEN c
    ELSE IF item.k = <<Slash>> THEN EnsurePath(c, resource, item.v.str, st)
    ELSE IF Raises(Lookup(item.k)) THEN [c EXCEPT !.raised = Lookup(item.k)]
    ELSE EnsureObjects(c, resource, Lookup(item.k), AsList(item.v), st)

\* the loop over doc.items()
RECURSIVE DocItems(_, _, _, _)
DocItems(c, resource, items, st) ==
    IF items = << >> THEN c
    ELSE DocItems(DocItem(c, resource, Head(items), st), resource,
                  Tail(items), st)

\* one pass of the loop over the documents: a document with '=' ends at
\* the name FetchObject, any other is a new resource
OneDoc(c, doc, st) ==
    IF c.raised # None THEN c
    ELSE IF HasKey(doc, <<Equals>>)
    THEN [c EXCEPT !.raised = [raise |-> "NameError"]]
    ELSE DocItems(add(c, None, Lookup(S_type), Lookup(S_Resource)).c,
                  add(c, None, Lookup(S_type), Lookup(S_Resource)).st,
                  doc, st)

\* the loop over the documents
RECURSIVE DocsTransaction(_, _, _)
DocsTransaction(c, docs, st) ==
    IF docs = << >> THEN c
    ELSE DocsTransaction(OneDoc(c, Head(docs), st), Tail(docs), st)

\* any answer but 'n' submits
Confirmed_not_n(reply) == reply # [answer |-> <<110>>]

\* input("Submit y/n? [n] ") == "y"
Confirmed(reply) == reply = [answer |-> S_y]

\* docs_to_transaction up to the prompt: the transaction is built; an
\* exception ends it, an empty transaction prints 'No new statements.',
\* any other is shown and the prompt is reached
DocsToTransaction ==
    /\ pc = "idle"
    /\ \E docs \in DocLists :
          \E c \in {DocsTransaction(NewTransaction(sts), docs, sts)} :
             /\ last' = [op |-> "docs_to_transaction", docs |-> docs,
                         before |-> sts, tx |-> c.tx, reply |-> None,
                         shown |-> c.raised = None /\ Len(c.tx) > 0]
             /\ error' = c.raised
             /\ pc' = IF c.raised # None THEN "raised"
                      ELSE IF Len(c.tx) > 0 THEN "prompt"
                      ELSE "done"
    /\ UNCHANGED <<fs, exclude, catalog, clock, stack, results, idx, limit,
                   left, right, cur_left, cur_right, batch, run, emitted,
                   produced, walked, fetched, calls, printed, ended, sts,
                   shown, edit, editor>>

\* the prompt: input() is read and the transaction submitted on 'y'
SubmitPrompt ==
    /\ pc = "prompt"
    /\ \E reply \in Replies :
          /\ last' = [last EXCEPT !.reply = reply]
          /\ IF Raises(reply)
             THEN pc' = "raised" /\ error' = reply /\ UNCHANGED sts
             ELSE /\ pc' = "done"
                  /\ sts' = IF Confirmed(reply) THEN submit(sts, last.tx)
                            ELSE sts
                  /\ UNCHANGED error
    /\ UNCHANGED <<fs, exclude, catalog, clock, stack, results, idx, limit,
                   left, right, cur_left, cur_right, batch, run, emitted,
                   produced, walked, fetched, calls, printed, ended, shown,
                   edit, editor>>

NextTransaction == DocsToTransaction \/ SubmitPrompt

SpecTransaction == InitEdit /\ [][NextTransaction]_vars

(* Properties of docs_to_transaction *)

\* C40: docs_to_transaction changes the repository only by submitting its
\* transaction, and only when the transaction holds at least one statement
\* and the answer at the prompt is exactly 'y'; with an empty transaction,
\* any other answer or an exception the repository is what it was
C40_SubmitOnlyConfirmed ==
    last.op = "docs_to_transaction"
    => /\ sts \in {last.before, last.before \o last.tx}
       /\ (Len(last.tx) = 0 \/ last.reply # [answer |-> S_y])
          => sts = last.before

\* a transaction of two new resources has been submitted on the answer 'y'
C40_Witness ==
    /\ last.op = "docs_to_transaction" /\ pc = "done"
    /\ Len(last.docs) = 2
    /\ Len(last.tx) >= 2
    /\ last.reply = [answer |-> S_y]
    /\ sts = last.before \o last.tx
    /\ sts # last.before

====
